---- MODULE Spec2Model ----
(***************************************************************************)
(* Rule evaluation engine of the radio-cell parameter checker.             *)
(*                                                                         *)
(*   ParameterCheckerV2 (src/parameter_checker_v2.py)                      *)
(*     evaluate_complex_condition / evaluate_simple_conditions /           *)
(*     evaluate_single_condition / evaluate_boolean_expression             *)
(*     check_parameter_validation / execute_validation_rule                *)
(*   ParameterChecker (src/parameter_checker.py)                           *)
(*     _evaluate_condition                                                 *)
(*                                                                         *)
(* Strings are sequences of one-character strings.  A condition is kept as *)
(* a sequence of lexical items (each item a string): "(", ")", " and ",    *)
(* " or ", a comparison atom such as "a>=10", or the text "True"/"False"   *)
(* that the bracket substitution writes back.  The condition string of the *)
(* program is the concatenation of the items.                              *)
(***************************************************************************)
EXTENDS Integers, Sequences, FiniteSets, TLC

VARIABLES
    condition_type,       \* Python type of the argument `condition`
    condition,            \* argument `condition` of both evaluators (when a str)
    current_params,       \* argument `current_params` (the row) of both evaluators
    processed_condition,  \* evaluate_complex_condition: local `processed_condition`
    pc,                   \* position inside evaluate_complex_condition
    result,               \* value returned by evaluate_complex_condition
    simple_pc,            \* position inside ParameterChecker._evaluate_condition
    simple_result         \* value returned by ParameterChecker._evaluate_condition

evalVars == <<condition_type, condition, current_params, processed_condition,
              pc, result, simple_pc, simple_result>>

VARIABLES
    parameter_info,       \* self.parameter_info: MO -> parameter name -> parameter type
    validation_rules,     \* self.validation_rules, as load_knowledge_base leaves it (sorted)
    groups,               \* check_parameter_validation: argument `groups` (MO -> rows)
    mo_name,              \* check_parameter_validation: argument `mo_name`
    sector_id,            \* check_parameter_validation: argument `sector_id`
    mo_rules,             \* check_parameter_validation: local `mo_rules`
    rule_index,           \* position of the `for rule in mo_rules` loop
    executed_rules,       \* check_parameter_validation: local `executed_rules`
    errors,               \* check_parameter_validation: local `errors` (returned)
    pass_pc,              \* position inside check_parameter_validation
    execution_log,        \* history: rule ids in the order execute_validation_rule ran them
    other_pass            \* the locals of a second check_parameter_validation call that is
                          \* not running at the moment (pass_pc "none": there is no such call)

passVars == <<parameter_info, validation_rules, groups, mo_name, sector_id, mo_rules, rule_index,
              executed_rules, errors, pass_pc, execution_log, other_pass>>

VARIABLES
    switch_text,          \* the text given to both switch-group parsers (current value)
    expected_str,         \* check_multi_value_match: argument `expected_value`
    simple_switches,      \* dict returned by ParameterChecker._parse_multi_value
    engine_switches,      \* dict returned by ParameterCheckerV2.parse_multi_value_parameter
    match_result,         \* value returned by ParameterCheckerV2.check_multi_value_match
    switch_display,       \* attached _process_multi_value_param: local `current_switch_display`
    display_switches,     \* dict _parse_multi_value returns for current_switch_display
    codec_done            \* which of the calls have returned

codecVars == <<switch_text, expected_str, simple_switches, engine_switches, match_result,
               switch_display, display_switches, codec_done>>

VARIABLES
    variant,              \* which ParameterChecker runs: parameter_checker.py or the attached one
    param_info,           \* check_single_param: local `param_info` (knowledge of the parameter)
    tmp,                  \* check_single_param: local `tmp` (the rows of the MO)
    row_index,            \* position of the row loop of _process_*_value_param
    valid_mask,           \* check_single_param: local `valid_mask`, one flag per row
    error_details,        \* check_single_param: local `error_details`, one entry per row
    mod_commands,         \* check_single_param: local `mod_commands`, one command per row
    check_pc              \* position inside check_single_param

checkVars == <<variant, param_info, tmp, row_index, valid_mask, error_details, mod_commands,
               check_pc>>

vars == <<evalVars, passVars, codecVars, checkVars>>

-----------------------------------------------------------------------------
(* Strings                                                                 *)

Digits == <<"0", "1", "2", "3", "4", "5", "6", "7", "8", "9">>

IsDigit(c) == \E i \in 1..Len(Digits) : Digits[i] = c

DigitVal(c) == (CHOOSE i \in 1..Len(Digits) : Digits[i] = c) - 1

\* Unicode code point of the characters used in values; Python compares
\* str objects lexicographically by code point.
CodePoint(c) ==
    CASE c = " " -> 32
      [] c = "." -> 46
      [] IsDigit(c) -> 48 + DigitVal(c)
      [] c = "a" -> 97
      [] c = "b" -> 98
      [] c = "c" -> 99
      [] OTHER -> 120

RECURSIVE LStrip(_)
LStrip(s) == IF s # <<>> /\ Head(s) = " " THEN LStrip(Tail(s)) ELSE s

RECURSIVE RStrip(_)
RStrip(s) ==
    IF s # <<>> /\ s[Len(s)] = " " THEN RStrip(SubSeq(s, 1, Len(s) - 1)) ELSE s

\* str.strip()
Strip(s) == RStrip(LStrip(s))

\* str.find(sub) + 1: position of the first occurrence of sub in s, 0 if none
Find(sub, s) ==
    LET hits == {i \in 1..(Len(s) - Len(sub) + 1) :
                    SubSeq(s, i, i + Len(sub) - 1) = sub}
    IN IF hits = {} THEN 0 ELSE CHOOSE i \in hits : \A j \in hits : i <= j

\* sub in s
Contains(sub, s) == Find(sub, s) # 0

\* s < t for Python str
RECURSIVE StrLess(_, _)
StrLess(s, t) ==
    IF t = <<>> THEN FALSE
    ELSE IF s = <<>> THEN TRUE
    ELSE IF Head(s) # Head(t) THEN CodePoint(Head(s)) < CodePoint(Head(t))
    ELSE StrLess(Tail(s), Tail(t))

-----------------------------------------------------------------------------
(* try_numeric: float(val) if '.' in val else int(val), the string itself  *)
(* when the conversion raises.  A number is kept as the exact fraction     *)
(* num/den (den a power of ten).                                           *)

AllDigits(s) == \A i \in 1..Len(s) : IsDigit(s[i])

RECURSIVE DecimalOf(_)
DecimalOf(s) == IF s = <<>> THEN 0 ELSE 10 * DecimalOf(SubSeq(s, 1, Len(s) - 1)) + DigitVal(s[Len(s)])

RECURSIVE Pow10(_)
Pow10(n) == IF n = 0 THEN 1 ELSE 10 * Pow10(n - 1)

\* int(val) succeeds
IntParses(s) == s # <<>> /\ AllDigits(s)

\* float(val) succeeds, for a val that contains '.'
FloatParses(s) ==
    LET dot == Find(<<".">>, s)
        ip  == SubSeq(s, 1, dot - 1)
        fp  == SubSeq(s, dot + 1, Len(s))
    IN dot # 0 /\ AllDigits(ip) /\ AllDigits(fp) /\ Len(ip) + Len(fp) > 0

try_numeric(val) ==
    IF Contains(<<".">>, val)
    THEN IF FloatParses(val)
         THEN LET dot == Find(<<".">>, val)
                  ip  == SubSeq(val, 1, dot - 1)
                  fp  == SubSeq(val, dot + 1, Len(val))
              IN [isnum |-> TRUE,
                  num |-> DecimalOf(ip) * Pow10(Len(fp)) + DecimalOf(fp),
                  den |-> Pow10(Len(fp)), str |-> <<>>]
         ELSE [isnum |-> FALSE, num |-> 0, den |-> 1, str |-> val]
    ELSE IF IntParses(val)
         THEN [isnum |-> TRUE, num |-> DecimalOf(val), den |-> 1, str |-> <<>>]
         ELSE [isnum |-> FALSE, num |-> 0, den |-> 1, str |-> val]

\* Outcome of a Python expression: a boolean, or an exception.
Ok(b) == [exc |-> FALSE, val |-> b]
Raise == [exc |-> TRUE, val |-> FALSE]

\* x == y, x < y for the values try_numeric returns (int, float or str)
PyEq(x, y) ==
    IF x.isnum /\ y.isnum THEN x.num * y.den = y.num * x.den
    ELSE IF ~x.isnum /\ ~y.isnum THEN x.str = y.str
    ELSE FALSE

\* x < y; comparing a number with a str raises TypeError
PyLess(x, y) ==
    IF x.isnum /\ y.isnum THEN Ok(x.num * y.den < y.num * x.den)
    ELSE IF ~x.isnum /\ ~y.isnum THEN Ok(StrLess(x.str, y.str))
    ELSE Raise

-----------------------------------------------------------------------------
(* evaluate_single_condition                                               *)

operators == << <<"!", "=">>, <<">", "=">>, <<"<", "=">>, <<"=">>, <<">">>, <<"<">> >>

\* str(current_params.get(param_name, ''))
RowGet(row, param_name) ==
    IF param_name \in DOMAIN row THEN row[param_name] ELSE <<>>

Compare(op, current_val, expected_val) ==
    CASE op = <<"=">>       -> Ok(PyEq(current_val, expected_val))
      [] op = <<"!", "=">>  -> Ok(~PyEq(current_val, expected_val))
      [] op = <<">">>       -> PyLess(expected_val, current_val)
      [] op = <<"<">>       -> PyLess(current_val, expected_val)
      [] op = <<">", "=">>  ->
            LET lt == PyLess(current_val, expected_val)
            IN IF lt.exc THEN Raise ELSE Ok(~lt.val)
      [] op = <<"<", "=">>  ->
            LET gt == PyLess(expected_val, current_val)
            IN IF gt.exc THEN Raise ELSE Ok(~gt.val)

\* The first operator of the list that occurs in the text (0: none does).
FirstOperator(text) ==
    LET found == {i \in 1..Len(operators) : Contains(operators[i], text)}
    IN IF found = {} THEN 0 ELSE CHOOSE i \in found : \A j \in found : i <= j

evaluate_single_condition(text, row) ==
    LET k == FirstOperator(text)
    IN IF k = 0 THEN Ok(FALSE)
       ELSE LET op   == operators[k]
                at   == Find(op, text)
                param_name     == Strip(SubSeq(text, 1, at - 1))
                expected_value == Strip(SubSeq(text, at + Len(op), Len(text)))
                current_value  == Strip(RowGet(row, param_name))
            IN Compare(op, try_numeric(current_value), try_numeric(expected_value))

-----------------------------------------------------------------------------
(* Lexical items of a condition                                            *)

LP        == <<"(">>
RP        == <<")">>
AND       == <<" ", "a", "n", "d", " ">>
OR        == <<" ", "o", "r", " ">>
COMMA     == <<",">>
BLANK     == <<" ">>
TrueText  == <<"T", "r", "u", "e">>
FalseText == <<"F", "a", "l", "s", "e">>

\* str(bool)
StrOfBool(b) == IF b THEN TrueText ELSE FalseText

\* The string a sequence of items stands for.
RECURSIVE Flatten(_)
Flatten(items) == IF items = <<>> THEN <<>> ELSE Head(items) \o Flatten(Tail(items))

\* str.split(sep) for a separator that is an item: the items between the
\* occurrences of sep (always at least one part).
RECURSIVE SplitAt(_, _, _)
SplitAt(items, sep, acc) ==
    IF items = <<>> THEN <<acc>>
    ELSE IF Head(items) = sep THEN <<acc>> \o SplitAt(Tail(items), sep, <<>>)
    ELSE SplitAt(Tail(items), sep, Append(acc, Head(items)))

Split(items, sep) == SplitAt(items, sep, <<>>)

HasItem(items, it) == \E i \in 1..Len(items) : items[i] = it

-----------------------------------------------------------------------------
(* evaluate_simple_conditions: ' or ' of ' and ' of single conditions,     *)
(* left to right with the early exits of the two loops; an exception of a  *)
(* single condition propagates.                                            *)

\* `if not self.evaluate_single_condition(...): all_and_true = False; break`
AndStep(r, rest) ==
    IF r.exc THEN Raise
    ELSE IF ~r.val THEN Ok(FALSE)
    ELSE rest

RECURSIVE AllAndTrue(_, _)
AllAndTrue(and_parts, row) ==
    IF and_parts = <<>> THEN Ok(TRUE)
    ELSE AndStep(evaluate_single_condition(Strip(Flatten(Head(and_parts))), row),
                 AllAndTrue(Tail(and_parts), row))

\* `if all_and_true: return True`
OrStep(r, rest) ==
    IF r.exc THEN Raise
    ELSE IF r.val THEN Ok(TRUE)
    ELSE rest

RECURSIVE AnyOrPart(_, _)
AnyOrPart(or_parts, row) ==
    IF or_parts = <<>> THEN Ok(FALSE)
    ELSE OrStep(AllAndTrue(Split(Head(or_parts), AND), row),
                AnyOrPart(Tail(or_parts), row))

evaluate_simple_conditions(content, row) == AnyOrPart(Split(content, OR), row)

-----------------------------------------------------------------------------
(* re.sub(bracket_pattern, evaluate_bracket_content, processed_condition)  *)
(* with bracket_pattern = \(([^()]+)\): every leftmost non-overlapping     *)
(* "(" content ")" whose content is non-empty and free of parentheses is   *)
(* replaced by str(evaluate_simple_conditions(content)).                   *)

IsParen(it) == it = LP \/ it = RP

\* Index of the ")" that closes a match starting at the "(" at index i,
\* 0 when the pattern does not match there.
MatchEnd(items, i) ==
    LET parens == {j \in (i + 1)..Len(items) : IsParen(items[j])}
        j0     == CHOOSE j \in parens : \A k \in parens : j <= k
    IN IF parens = {} THEN 0
       ELSE IF items[j0] = RP /\ j0 > i + 1 THEN j0 ELSE 0

\* An item outside every match is copied to the result.
Kept(it, rest) ==
    IF rest.exc THEN rest
    ELSE [exc |-> FALSE, seq |-> <<it>> \o rest.seq]

\* The exception of the callback is caught per match: the group counts as False.
ReplacedCaught(r, rest) ==
    IF rest.exc THEN rest
    ELSE [exc |-> FALSE, seq |-> <<StrOfBool(~r.exc /\ r.val)>> \o rest.seq]

\* A match is replaced by str(result); an exception of the callback ends re.sub.
Replaced(r, rest) ==
    IF r.exc THEN [exc |-> TRUE, seq |-> <<>>]
    ELSE IF rest.exc THEN rest
    ELSE [exc |-> FALSE, seq |-> <<StrOfBool(r.val)>> \o rest.seq]

RECURSIVE SubFrom(_, _, _)

\* The scan at item i, where a match ends at j (0: no match starts at i).
SubAt(items, i, j, row) ==
    IF j = 0
    THEN Kept(items[i], SubFrom(items, i + 1, row))
    ELSE Replaced(evaluate_simple_conditions(SubSeq(items, i + 1, j - 1), row),
                  SubFrom(items, j + 1, row))

SubFrom(items, i, row) ==
    IF i > Len(items) THEN [exc |-> FALSE, seq |-> <<>>]
    ELSE SubAt(items, i, IF items[i] = LP THEN MatchEnd(items, i) ELSE 0, row)

evaluate_bracket_content(items, row) == SubFrom(items, 1, row)

-----------------------------------------------------------------------------
(* evaluate_boolean_expression: eval(python_expr), any exception -> False. *)
(* eval compiles the whole text first (SyntaxError) and then evaluates     *)
(* `or` of `and` with short circuit; a comparison atom that is reached is  *)
(* evaluated as Python code, where the parameter name is an unbound        *)
(* identifier (NameError).                                                 *)

Letters == {"a", "b", "c", "f", "o", "x"}

IsIdentifier(t) ==
    /\ t # <<>>
    /\ Head(t) \in Letters
    /\ \A i \in 1..Len(t) : t[i] \in Letters \/ IsDigit(t[i])

IsNumberLiteral(t) ==
    \/ /\ IntParses(t)
       /\ (Len(t) = 1 \/ Head(t) # "0" \/ \A i \in 1..Len(t) : t[i] = "0")
    \/ /\ Contains(<<".">>, t)
       /\ FloatParses(t)

PyTerm(t) == IsIdentifier(t) \/ IsNumberLiteral(t)

\* The item is a Python expression (compiles).
PyOperandParses(it) ==
    \/ it = TrueText
    \/ it = FalseText
    \/ LET k == FirstOperator(it)
       IN IF k = 0 THEN IsIdentifier(it)
          ELSE LET op == operators[k]
                   at == Find(op, it)
               IN /\ op # <<"=">>
                  /\ IsIdentifier(SubSeq(it, 1, at - 1))
                  /\ PyTerm(SubSeq(it, at + Len(op), Len(it)))

PyParses(items) ==
    LET or_parts == Split(items, OR)
    IN \A i \in 1..Len(or_parts) :
          LET and_parts == Split(or_parts[i], AND)
          IN \A j \in 1..Len(and_parts) :
                /\ Len(and_parts[j]) = 1
                /\ PyOperandParses(and_parts[j][1])

PyOperand(it) ==
    IF it = TrueText THEN Ok(TRUE)
    ELSE IF it = FalseText THEN Ok(FALSE)
    ELSE Raise

RECURSIVE PyAnd(_)
PyAnd(and_parts) ==
    LET r == PyOperand(Head(and_parts)[1])
    IN IF r.exc THEN Raise
       ELSE IF Len(and_parts) = 1 \/ ~r.val THEN r
       ELSE PyAnd(Tail(and_parts))

RECURSIVE PyOr(_)
PyOr(or_parts) ==
    LET r == PyAnd(Split(Head(or_parts), AND))
    IN IF r.exc THEN Raise
       ELSE IF Len(or_parts) = 1 \/ r.val THEN r
       ELSE PyOr(Tail(or_parts))

PyEval(items) == IF PyParses(items) THEN PyOr(Split(items, OR)) ELSE Raise

\* try: return eval(...) / except: return False
ExceptFalse(r) == IF r.exc THEN FALSE ELSE r.val

evaluate_boolean_expression(expression) == ExceptFalse(PyEval(expression))

-----------------------------------------------------------------------------
(* ParameterChecker._evaluate_condition: comma-separated 'param=value'     *)
(* clauses, all of which must hold (trimmed string equality).              *)

\* [cond.strip() for cond in condition.split(',') if cond.strip()]
RECURSIVE StripParts(_)
StripParts(parts) ==
    IF parts = <<>> THEN <<>>
    ELSE IF Strip(Head(parts)) = <<>> THEN StripParts(Tail(parts))
    ELSE <<Strip(Head(parts))>> \o StripParts(Tail(parts))

ClauseHolds(cond, row) ==
    LET at == Find(<<"=">>, cond)
        param_name     == Strip(SubSeq(cond, 1, at - 1))
        expected_value == Strip(SubSeq(cond, at + 1, Len(cond)))
        current_value  == Strip(RowGet(row, param_name))
    IN at # 0 /\ current_value = expected_value

_evaluate_condition(ctype, text, row) ==
    IF ctype # "str" THEN TRUE
    ELSE IF Strip(text) = <<>> THEN TRUE
    ELSE LET conditions == StripParts(Split(Strip(text), ","))
         IN \A i \in 1..Len(conditions) : ClauseHolds(conditions[i], row)

-----------------------------------------------------------------------------
(* Inputs of the evaluators                                                *)

\* Largest number of operands joined by ' and ' / ' or ' in one expression.
MaxOperands == 3

NameA == <<"a">>
NameB == <<"b">>
ParamNames == {NameA, NameB}

RowValuesA == {<<>>, <<"9">>, <<"1", "0">>, <<"1", "0", ".", "0">>, <<"a">>, <<" ", "1", "0">>}
RowValuesB == {<<"9">>, <<"1", "0">>}
LitValues  == {<<"1", "0">>, <<"9">>, <<"a">>}

\* Rows: column a always present, column b present or missing.
Rows ==
    {[n \in {NameA} |-> v] : v \in RowValuesA}
    \cup {[n \in ParamNames |-> IF n = NameA THEN v ELSE w] :
             v \in RowValuesA, w \in RowValuesB}

OperatorSet == {operators[i] : i \in 1..Len(operators)}

AllAtoms == {n \o op \o v : n \in ParamNames, op \in OperatorSet, v \in LitValues}

AtomA_eq == NameA \o <<"=">> \o <<"1", "0">>
AtomA_ge == NameA \o <<">", "=">> \o <<"1", "0">>
AtomB_eq == NameB \o <<"=">> \o <<"1", "0">>
CAtoms == {AtomA_eq, AtomA_ge, AtomB_eq}

Connectives == {AND, OR}

Paren(e) == <<LP>> \o e \o <<RP>>

\* operand (connective operand)* with n operands
RECURSIVE Chain(_, _)
Chain(operands, n) ==
    IF n = 1 THEN operands
    ELSE {e \o <<c>> \o o : e \in Chain(operands, n - 1), c \in Connectives, o \in operands}

ChainUpTo(operands, n) == UNION {Chain(operands, k) : k \in 1..n}

AtomOperands  == {<<t>> : t \in CAtoms}
GroupOperands == {Paren(o) : o \in AtomOperands}

\* Operands of the expressions that mix atoms and parenthesized atoms.
MixedOperands == {<<AtomA_ge>>, <<AtomB_eq>>, Paren(<<AtomA_ge>>), Paren(<<AtomB_eq>>)}

EmptyConds      == {<<>>, <<BLANK>>, <<BLANK, BLANK>>}
SingleConds     == {<<t>> : t \in AllAtoms} \cup {Paren(<<t>>) : t \in AllAtoms}
MixedConds      == ChainUpTo(MixedOperands, MaxOperands)
GroupConds      == Chain({Paren(g) : g \in ChainUpTo(AtomOperands, 2)}, 2)
NestedConds     == {Paren(Paren(x) \o <<c>> \o y) : x \in AtomOperands, c \in Connectives, y \in AtomOperands}
                   \cup {Paren(Paren(Paren(x))) : x \in AtomOperands}
EmptyGroupConds == {Paren(<<>>), Paren(Paren(<<>>))}
                   \cup {Paren(<<>>) \o <<c>> \o g : c \in Connectives, g \in GroupOperands}
                   \cup {g \o <<c>> \o Paren(<<>>) : c \in Connectives, g \in GroupOperands}
CommaConds      == {<<x, COMMA, y>> : x, y \in {AtomA_eq, AtomB_eq}}
                   \cup {Paren(<<x, COMMA, y>>) : x, y \in {AtomA_eq, AtomB_eq}}
UnbalancedConds == {<<LP>> \o o : o \in AtomOperands} \cup {o \o <<RP>> : o \in AtomOperands}

\* An atom without any of the six operators.
AtomFoo == <<"f", "o", "o">>

\* The atom without operator as an operand: bare, or as a group of its own.
MalformedOperands == {<<AtomFoo>>, Paren(<<AtomFoo>>)}

\* The atom without operator next to a group, on either side, and inside a
\* group next to an atom.
MalformedConds ==
    {f \o <<c>> \o g : f \in MalformedOperands, c \in Connectives, g \in GroupOperands}
    \cup {g \o <<c>> \o f : f \in MalformedOperands, c \in Connectives, g \in GroupOperands}
    \cup {Paren(<<AtomFoo, c>> \o o) : c \in Connectives, o \in AtomOperands}

Conditions ==
    EmptyConds \cup SingleConds \cup MixedConds \cup GroupConds \cup NestedConds
    \cup EmptyGroupConds \cup CommaConds \cup UnbalancedConds \cup MalformedConds

-----------------------------------------------------------------------------
(* evaluate_complex_condition as a state machine                           *)

\* No switch-group text is being parsed.
CodecIdle ==
    /\ switch_text = <<>>
    /\ expected_str = <<>>
    /\ simple_switches = <<>>
    /\ engine_switches = <<>>
    /\ match_result = FALSE
    /\ switch_display = <<>>
    /\ display_switches = <<>>
    /\ codec_done = {}

\* No check_single_param call is in progress.
CheckIdle ==
    /\ variant = ""
    /\ param_info = <<>>
    /\ tmp = <<>>
    /\ row_index = 0
    /\ valid_mask = <<>>
    /\ error_details = <<>>
    /\ mod_commands = <<>>
    /\ check_pc = "idle"

\* The locals of a call of check_parameter_validation before its first statement.
PassLocals(pc_value) ==
    [mo_name |-> "", sector_id |-> "", mo_rules |-> <<>>, rule_index |-> 0,
     executed_rules |-> {}, errors |-> <<>>, pass_pc |-> pc_value, execution_log |-> <<>>]

\* No rule pass is in progress and no knowledge base is loaded.
PassIdle ==
    /\ parameter_info = <<>>
    /\ validation_rules = <<>>
    /\ groups = <<>>
    /\ mo_name = ""
    /\ sector_id = ""
    /\ mo_rules = <<>>
    /\ rule_index = 0
    /\ executed_rules = {}
    /\ errors = <<>>
    /\ pass_pc = "idle"
    /\ execution_log = <<>>
    /\ other_pass = PassLocals("none")

InitEval ==
    /\ \/ condition_type = "str" /\ condition \in Conditions
       \/ condition_type \in {"NoneType", "int"} /\ condition = <<>>
    /\ current_params \in Rows
    /\ processed_condition = <<>>
    /\ pc = "call"
    /\ result = FALSE
    /\ simple_pc = "call"
    /\ simple_result = FALSE
    /\ PassIdle
    /\ CodecIdle
    /\ CheckIdle

\* `if not condition: return True`; a non-empty str enters the try block.
\* None is falsy; "int" stands for a non-zero number, on which
\* `'(' in processed_condition` raises TypeError inside the try block.
Begin ==
    /\ pc = "call"
    /\ IF condition_type = "NoneType" \/ (condition_type = "str" /\ condition = <<>>)
       THEN /\ pc' = "done"
            /\ result' = TRUE
            /\ UNCHANGED processed_condition
       ELSE IF condition_type = "int"
       THEN /\ pc' = "done"
            /\ result' = FALSE
            /\ UNCHANGED processed_condition
       ELSE /\ pc' = "loop"
            /\ processed_condition' = condition
            /\ UNCHANGED result
    /\ UNCHANGED <<condition_type, condition, current_params, simple_pc, simple_result>>
    /\ UNCHANGED <<passVars, codecVars, checkVars>>

\* One iteration of `while '(' in processed_condition`.
\* processed_condition = re.sub(...); an exception leaves through `except`.
AssignProcessed(r) ==
    IF r.exc
    THEN /\ pc' = "done"
         /\ result' = FALSE
         /\ UNCHANGED processed_condition
    ELSE /\ processed_condition' = r.seq
         /\ UNCHANGED <<pc, result>>

ResolveBrackets ==
    /\ pc = "loop"
    /\ HasItem(processed_condition, LP)
    /\ AssignProcessed(evaluate_bracket_content(processed_condition, current_params))
    /\ UNCHANGED <<condition_type, condition, current_params, simple_pc, simple_result>>
    /\ UNCHANGED <<passVars, codecVars, checkVars>>

\* Loop exit: return self.evaluate_boolean_expression(processed_condition)
EvaluateBoolean ==
    /\ pc = "loop"
    /\ ~HasItem(processed_condition, LP)
    /\ pc' = "done"
    /\ result' = evaluate_boolean_expression(processed_condition)
    /\ UNCHANGED <<condition_type, condition, current_params, processed_condition,
                   simple_pc, simple_result>>
    /\ UNCHANGED <<passVars, codecVars, checkVars>>

\* A call of ParameterChecker._evaluate_condition on the same arguments.
SimpleEvaluate ==
    /\ simple_pc = "call"
    /\ simple_pc' = "done"
    /\ simple_result' = _evaluate_condition(condition_type, Flatten(condition), current_params)
    /\ UNCHANGED <<condition_type, condition, current_params, processed_condition, pc, result>>
    /\ UNCHANGED <<passVars, codecVars, checkVars>>

NextEval == Begin \/ ResolveBrackets \/ EvaluateBoolean \/ SimpleEvaluate

SpecEval == InitEval /\ [][NextEval]_vars

-----------------------------------------------------------------------------
(* evaluate_complex_condition as a function, for its callers                *)

\* The loop `while '(' in processed_condition` followed by the final eval.
RECURSIVE ResolveLoop(_, _)

\* After one re.sub: the exception is caught, or the loop goes on.
AfterSub(r, row) == IF r.exc THEN FALSE ELSE ResolveLoop(r.seq, row)

ResolveLoop(processed, row) ==
    IF ~HasItem(processed, LP) THEN evaluate_boolean_expression(processed)
    ELSE AfterSub(evaluate_bracket_content(processed, row), row)

RECURSIVE LoopEnds(_, _)

\* After one re.sub the loop ends: by the exception, or later on a changed text.
SubEnds(r, processed, row) == r.exc \/ (r.seq # processed /\ LoopEnds(r.seq, row))

\* The loop ends (a pass that resolves nothing repeats forever).
LoopEnds(processed, row) ==
    \/ ~HasItem(processed, LP)
    \/ SubEnds(evaluate_bracket_content(processed, row), processed, row)

evaluate_complex_condition(cond, row) ==
    IF cond = <<>> THEN TRUE ELSE ResolveLoop(cond, row)

-----------------------------------------------------------------------------
(* parse_multi_value_parameter / check_multi_value_match                   *)

\* Python None in a field of an error record
None == <<"None">>

DictGet(d, key, default) == IF key \in DOMAIN d THEN d[key] ELSE default

DictPut(d, key, val) == [k \in DOMAIN d \cup {key} |-> IF k = key THEN val ELSE d[k]]

RECURSIVE ParseParts(_, _)
ParseParts(parts, acc) ==
    IF parts = <<>> THEN acc
    ELSE LET part == Head(parts)
             at   == Find(<<":">>, part)
         IN IF at = 0 THEN ParseParts(Tail(parts), acc)
            ELSE ParseParts(Tail(parts),
                            DictPut(acc, Strip(SubSeq(part, 1, at - 1)),
                                    Strip(SubSeq(part, at + 1, Len(part)))))

parse_multi_value_parameter(value_str) == ParseParts(Split(value_str, "&"), <<>>)

check_multi_value_match(current_value, expected_value) ==
    LET current_switches  == parse_multi_value_parameter(current_value)
        expected_switches == parse_multi_value_parameter(expected_value)
    IN \A switch_name \in DOMAIN expected_switches :
          DictGet(current_switches, switch_name, <<>>) = expected_switches[switch_name]

-----------------------------------------------------------------------------
(* check_misconfiguration / execute_validation_rule                        *)
(* An error record keeps the keys of the Python dicts; a key the dict does *)
(* not have is None.  `row` is the index of the data row the record is     *)
(* about (0: the whole data set); it is not a key of the Python dict.      *)

ErrorRecord(sector, mo, etype, rid, pname, cur, exp, details, rowidx) ==
    [sector_id |-> sector, mo_name |-> mo, error_type |-> etype, rule_id |-> rid,
     param_name |-> pname, current_value |-> cur, expected_value |-> exp,
     error_details |-> details, row |-> rowidx]

\* [p.strip() for p in param_combination.split('&')]
RECURSIVE StripEach(_)
StripEach(parts) ==
    IF parts = <<>> THEN <<>> ELSE <<Strip(Head(parts))>> \o StripEach(Tail(parts))

ParamMatches(mo_params, param_name, current_value, expected_value) ==
    IF DictGet(mo_params, param_name, "") = "multiple"
    THEN check_multi_value_match(current_value, expected_value)
    ELSE current_value = expected_value

\* error_details of one row for a combination of parameters
RECURSIVE ErrorDetails(_, _, _, _)
ErrorDetails(param_names, row_params, mo_params, expected_value) ==
    IF param_names = <<>> THEN <<>>
    ELSE LET param_name == Head(param_names)
             rest == ErrorDetails(Tail(param_names), row_params, mo_params, expected_value)
         IN IF param_name \notin DOMAIN row_params THEN rest
            ELSE LET current_value == Strip(row_params[param_name])
                 IN IF ParamMatches(mo_params, param_name, current_value, expected_value)
                    THEN rest
                    ELSE <<[param_name |-> param_name, current_value |-> current_value,
                            expected_value |-> expected_value,
                            param_type |-> IF DictGet(mo_params, param_name, "") = "multiple"
                                           THEN "multiple" ELSE "single"]>> \o rest

\* The record of a combination keeps the first mismatched parameter only.
RowErrorsFirstOnly(rule, row_params, rowidx, mo_params, sector) ==
    IF Contains(<<"&">>, rule.parameter_combination)
    THEN LET details == ErrorDetails(StripEach(Split(rule.parameter_combination, "&")),
                                     row_params, mo_params, rule.expected_value)
         IN IF details = <<>> THEN <<>>
            ELSE <<ErrorRecord(sector, rule.mo_name, "misconfigured", rule.rule_id,
                               None, None, rule.expected_value, <<Head(details)>>, rowidx)>>
    ELSE LET param_name == Strip(rule.parameter_combination)
         IN IF param_name \notin DOMAIN row_params THEN <<>>
            ELSE LET current_value == Strip(row_params[param_name])
                 IN IF ParamMatches(mo_params, param_name, current_value, rule.expected_value)
                    THEN <<>>
                    ELSE <<ErrorRecord(sector, rule.mo_name, "misconfigured", rule.rule_id,
                                       param_name, current_value, rule.expected_value,
                                       <<>>, rowidx)>>

\* The records check_misconfiguration appends for one row.
RowErrors(rule, row_params, rowidx, mo_params, sector) ==
    IF Contains(<<"&">>, rule.parameter_combination)
    THEN LET details == ErrorDetails(StripEach(Split(rule.parameter_combination, "&")),
                                     row_params, mo_params, rule.expected_value)
         IN IF details = <<>> THEN <<>>
            ELSE <<ErrorRecord(sector, rule.mo_name, "misconfigured", rule.rule_id,
                               None, None, rule.expected_value, details, rowidx)>>
    ELSE LET param_name == Strip(rule.parameter_combination)
         IN IF param_name \notin DOMAIN row_params THEN <<>>
            ELSE LET current_value == Strip(row_params[param_name])
                 IN IF ParamMatches(mo_params, param_name, current_value, rule.expected_value)
                    THEN <<>>
                    ELSE <<ErrorRecord(sector, rule.mo_name, "misconfigured", rule.rule_id,
                                       param_name, current_value, rule.expected_value,
                                       <<>>, rowidx)>>

RECURSIVE MisconfigurationFrom(_, _, _, _, _, _)
MisconfigurationFrom(rule, mo_data, indices, k, info, sector) ==
    IF k > Len(indices) THEN <<>>
    ELSE RowErrors(rule, mo_data[indices[k]], indices[k],
                   DictGet(info, rule.mo_name, <<>>), sector)
         \o MisconfigurationFrom(rule, mo_data, indices, k + 1, info, sector)

check_misconfiguration(rule, mo_data, indices, info, sector) ==
    MisconfigurationFrom(rule, mo_data, indices, 1, info, sector)

\* Indices of the rows of mo_data that pass the rule's filter_condition.
RECURSIVE FilterFrom(_, _, _)
FilterFrom(rule, mo_data, k) ==
    IF k > Len(mo_data) THEN <<>>
    ELSE (IF evaluate_complex_condition(rule.filter_condition, mo_data[k])
          THEN <<k>> ELSE <<>>) \o FilterFrom(rule, mo_data, k + 1)

filtered_data(rule, mo_data) ==
    IF rule.filter_condition # <<>> THEN FilterFrom(rule, mo_data, 1)
    ELSE [k \in 1..Len(mo_data) |-> k]

\* The filter evaluation of the rule returns on every row.
FilterReturns(rule, mo_data) ==
    \A k \in 1..Len(mo_data) :
        rule.filter_condition = <<>> \/ LoopEnds(rule.filter_condition, mo_data[k])

\* A missing rule reports whether or not a row passed its filter.
ValidateFilteredAlways(rule, mo_data, indices, info, sector) ==
    IF rule.validation_type = "missing"
    THEN <<ErrorRecord(sector, rule.mo_name, "missing", rule.rule_id,
                       None, None, rule.expected_value, <<>>, 0)>>
    ELSE IF indices = <<>> THEN <<>>
    ELSE IF rule.validation_type = "misconfigured"
         THEN check_misconfiguration(rule, mo_data, indices, info, sector)
         ELSE <<>>

\* The two branches of execute_validation_rule on the filtered rows.
ValidateFiltered(rule, mo_data, indices, info, sector) ==
    IF indices = <<>>
    THEN IF rule.validation_type = "missing"
         THEN <<ErrorRecord(sector, rule.mo_name, "missing", rule.rule_id,
                            None, None, rule.expected_value, <<>>, 0)>>
         ELSE <<>>
    ELSE IF rule.validation_type = "misconfigured"
         THEN check_misconfiguration(rule, mo_data, indices, info, sector)
         ELSE <<>>

execute_validation_rule(rule, mo_data, info, sector) ==
    ValidateFiltered(rule, mo_data, filtered_data(rule, mo_data), info, sector)

-----------------------------------------------------------------------------
(* load_knowledge_base: the rules are sorted by (mo_name, execution_order) *)
(* with list.sort, which is stable.                                        *)

\* Order of the MO names as str
MoNames == <<"M1", "M2", "M3">>

MoRank(m) == CHOOSE i \in 1..Len(MoNames) : MoNames[i] = m

\* key(r1) <= key(r2) for key = (mo_name, execution_order)
KeyLeq(r1, r2) ==
    \/ MoRank(r1.mo_name) < MoRank(r2.mo_name)
    \/ /\ r1.mo_name = r2.mo_name
       /\ r1.execution_order <= r2.execution_order

\* Insert r behind the last element whose key is <= key(r).
RECURSIVE InsertRule(_, _)
InsertRule(r, sorted) ==
    IF sorted = <<>> THEN <<r>>
    ELSE IF KeyLeq(sorted[Len(sorted)], r) THEN Append(sorted, r)
    ELSE Append(InsertRule(r, SubSeq(sorted, 1, Len(sorted) - 1)), sorted[Len(sorted)])

\* The rule list is left in load order.
KeepLoadOrder(loaded) == loaded

RECURSIVE SortRules(_)
SortRules(loaded) ==
    IF loaded = <<>> THEN <<>>
    ELSE InsertRule(loaded[Len(loaded)], SortRules(SubSeq(loaded, 1, Len(loaded) - 1)))

-----------------------------------------------------------------------------
(* Knowledge bases and data a pass runs on                                 *)

\* Largest number of validation rules of one MO.
MaxRules == 4

RuleIds == <<"R1", "R2", "R3", "R4", "R5", "R6", "R7", "R8">>

Str10 == <<"1", "0">>
Str9  == <<"9">>
NameS == <<"s">>

SwitchesOn  == <<"x", ":", "1", "&", "y", ":", "1">>
SwitchesOff == <<"x", ":", "1", "&", "y", ":", "0">>

\* What the i-th loaded rule of M1 checks.
RuleBody(i) ==
    CASE i % 4 = 1 -> [validation_type |-> "misconfigured", parameter_combination |-> NameA,
                       expected_value |-> Str10, filter_condition |-> <<>>]
      [] i % 4 = 2 -> [validation_type |-> "missing", parameter_combination |-> NameA,
                       expected_value |-> Str10, filter_condition |-> Paren(<<AtomA_ge>>)]
      [] i % 4 = 3 -> [validation_type |-> "misconfigured", parameter_combination |-> NameS,
                       expected_value |-> SwitchesOn,
                       filter_condition |-> Paren(<<AtomA_eq>>) \o <<OR>> \o Paren(<<AtomB_eq>>)]
      [] OTHER     -> [validation_type |-> "misconfigured",
                       parameter_combination |-> NameA \o <<"&">> \o NameB,
                       expected_value |-> Str10, filter_condition |-> <<>>]

Rule(id, mo, order, next, body) ==
    [rule_id |-> id, mo_name |-> mo, validation_type |-> body.validation_type,
     parameter_combination |-> body.parameter_combination,
     expected_value |-> body.expected_value, filter_condition |-> body.filter_condition,
     execution_order |-> order, next_rule |-> next]

\* execution_order of the i-th loaded rule: all equal, or alternating 2, 1, 2, ...
OrderPatterns == {"equal", "alternating"}

OrderOf(pattern, i) == IF pattern = "equal" \/ i % 2 = 0 THEN 1 ELSE 2

\* next_rule of the i-th of n rules: none, a rule of the MO (itself included),
\* or, for the first rule, a rule of another MO.
NextChoices(i, n) ==
    {""} \cup {RuleIds[j] : j \in 1..n} \cup (IF i = 1 THEN {"Q1"} ELSE {})

\* The rule of MO M2; its next_rule names a rule of M1.
RuleQ1 == Rule("Q1", "M2", 1, "R1", RuleBody(1))

\* A rule of M1 whose filter is the empty group "()"; its next_rule is itself.
EmptyGroupRule ==
    Rule("R1", "M1", 1, "R1",
         [validation_type |-> "misconfigured", parameter_combination |-> NameA,
          expected_value |-> Str10, filter_condition |-> Paren(<<>>)])

\* The rule sheet in load order.
LoadedRules ==
    {<<RuleQ1, EmptyGroupRule>>} \cup
    UNION {
        {<<RuleQ1>> \o [i \in 1..n |-> Rule(RuleIds[i], "M1", OrderOf(pattern, i), next[i], RuleBody(i))] :
            next \in {f \in [1..n -> {""} \cup {RuleIds[j] : j \in 1..n} \cup {"Q1"}] :
                         \A i \in 1..n : f[i] \in NextChoices(i, n)},
            pattern \in OrderPatterns}
        : n \in 1..MaxRules}

ParameterInfo ==
    [m \in {"M1", "M2"} |->
        IF m = "M1" THEN [q \in {NameA, NameS} |-> IF q = NameA THEN "single" ELSE "multiple"]
        ELSE [q \in {NameA} |-> "single"]]

DataRow(a, b, sw) == [q \in {NameA, NameB, NameS} |->
                        IF q = NameA THEN a ELSE IF q = NameB THEN b ELSE sw]

\* A row of a data set that has no column b.
DataRowNoB(a, sw) == [q \in {NameA, NameS} |-> IF q = NameA THEN a ELSE sw]

\* Row sets of M1 when it has some: empty, two rows, one row that differs in
\* every parameter, one row of a data set without the column b.
M1Data ==
    {<<>>,
     <<DataRow(Str9, Str10, SwitchesOff), DataRow(Str10, Str9, SwitchesOn)>>,
     <<DataRow(Str9, Str9, SwitchesOff)>>,
     <<DataRowNoB(Str9, SwitchesOn)>>}

\* Row sets per MO; M3 never has data, M1 may have none.
GroupChoices ==
    LET m2 == <<DataRow(Str10, Str9, SwitchesOn)>>
    IN {[m \in {"M2"} |-> m2]}
       \cup {[m \in {"M1", "M2"} |-> IF m = "M1" THEN d ELSE m2] : d \in M1Data}

-----------------------------------------------------------------------------
(* check_parameter_validation as a state machine                           *)

EvalIdle ==
    /\ condition_type = "str"
    /\ condition = <<>>
    /\ current_params = <<>>
    /\ processed_condition = <<>>
    /\ pc = "idle"
    /\ result = FALSE
    /\ simple_pc = "idle"
    /\ simple_result = FALSE

InitPass ==
    /\ parameter_info = ParameterInfo
    /\ validation_rules \in {SortRules(loaded) : loaded \in LoadedRules}
    /\ groups \in GroupChoices
    /\ mo_name = ""
    /\ sector_id = ""
    /\ mo_rules = <<>>
    /\ rule_index = 0
    /\ executed_rules = {}
    /\ errors = <<>>
    /\ pass_pc = "call"
    /\ execution_log = <<>>
    /\ other_pass = PassLocals("none")
    /\ EvalIdle
    /\ CodecIdle
    /\ CheckIdle

\* [rule for rule in self.validation_rules if rule['mo_name'] == mo_name]
RECURSIVE RulesOf(_, _)
RulesOf(rules, mo) ==
    IF rules = <<>> THEN <<>>
    ELSE (IF Head(rules).mo_name = mo THEN <<Head(rules)>> ELSE <<>>) \o RulesOf(Tail(rules), mo)

\* next((r for r in mo_rules if r['rule_id'] == next_rule_id), None): index, 0 for None
FindRule(rules, id) ==
    LET hits == {i \in 1..Len(rules) : rules[i].rule_id = id}
    IN IF hits = {} THEN 0 ELSE CHOOSE i \in hits : \A j \in hits : i <= j

\* One record per rule of the MO instead of one for the MO.
DataAbsentPerRule(rules, mo, sector) ==
    [i \in 1..Len(rules) |->
        ErrorRecord(sector, mo, "data_absent", "SYSTEM", None, None, None, <<>>, 0)]

\* `if mo_name not in groups: errors.append({... 'rule_id': 'SYSTEM' ...})`
DataAbsent(rules, mo, sector) ==
    <<ErrorRecord(sector, mo, "data_absent", "SYSTEM", None, None, None, <<>>, 0)>>

\* Entry of check_parameter_validation up to the start of the for loop.
StartPass(mo, sector) ==
    /\ pass_pc = "call"
    /\ mo_name' = mo
    /\ sector_id' = sector
    /\ mo_rules' = RulesOf(validation_rules, mo)
    /\ IF RulesOf(validation_rules, mo) = <<>>
       THEN /\ pass_pc' = "done"
            /\ UNCHANGED <<errors, rule_index>>
       ELSE IF mo \notin DOMAIN groups
       THEN /\ pass_pc' = "done"
            /\ errors' = DataAbsent(RulesOf(validation_rules, mo), mo, sector)
            /\ UNCHANGED rule_index
       ELSE /\ pass_pc' = "for"
            /\ rule_index' = 1
            /\ UNCHANGED errors
    /\ UNCHANGED <<parameter_info, validation_rules, groups, executed_rules, execution_log,
                   other_pass>>
    /\ UNCHANGED <<evalVars, codecVars, checkVars>>

\* `if rule['rule_id'] in executed_rules: continue`
SkipExecuted ==
    /\ pass_pc = "for"
    /\ rule_index <= Len(mo_rules)
    /\ mo_rules[rule_index].rule_id \in executed_rules
    /\ rule_index' = rule_index + 1
    /\ UNCHANGED <<parameter_info, validation_rules, groups, mo_name, sector_id, mo_rules,
                   executed_rules, errors, pass_pc, execution_log, other_pass>>
    /\ UNCHANGED <<evalVars, codecVars, checkVars>>

\* The rule of the for loop is executed and marked.
ExecuteRule ==
    /\ pass_pc = "for"
    /\ rule_index <= Len(mo_rules)
    /\ LET rule == mo_rules[rule_index]
       IN /\ rule.rule_id \notin executed_rules
          /\ FilterReturns(rule, groups[mo_name])
          /\ errors' = errors \o execute_validation_rule(rule, groups[mo_name],
                                                         parameter_info, sector_id)
          /\ executed_rules' = executed_rules \cup {rule.rule_id}
          /\ execution_log' = Append(execution_log, rule.rule_id)
    /\ pass_pc' = "chain"
    /\ UNCHANGED <<parameter_info, validation_rules, groups, mo_name, sector_id, mo_rules,
                   rule_index, other_pass>>
    /\ UNCHANGED <<evalVars, codecVars, checkVars>>

\* The next_rule of the rule just executed is looked up in mo_rules.
next_rule_of(rule, rules) ==
    IF rule.next_rule = "" THEN 0 ELSE FindRule(rules, rule.next_rule)

\* The chained rule is run whether or not it is marked as executed.
ChainAppliesUnmarked(rule, rules, executed) ==
    next_rule_of(rule, rules) # 0

\* `if next_rule and next_rule['rule_id'] not in executed_rules`
ChainApplies(rule, rules, executed) ==
    /\ next_rule_of(rule, rules) # 0
    /\ rules[next_rule_of(rule, rules)].rule_id \notin executed

\* The next_rule of the rule just executed is executed, then the loop goes on.
ChainNext ==
    /\ pass_pc = "chain"
    /\ LET rule == mo_rules[rule_index]
       IN IF ChainApplies(rule, mo_rules, executed_rules)
          THEN LET next_rule == mo_rules[next_rule_of(rule, mo_rules)]
               IN /\ FilterReturns(next_rule, groups[mo_name])
                  /\ errors' = errors \o execute_validation_rule(next_rule, groups[mo_name],
                                                                 parameter_info, sector_id)
                  /\ executed_rules' = executed_rules \cup {next_rule.rule_id}
                  /\ execution_log' = Append(execution_log, next_rule.rule_id)
          ELSE UNCHANGED <<errors, executed_rules, execution_log>>
    /\ rule_index' = rule_index + 1
    /\ pass_pc' = "for"
    /\ UNCHANGED <<parameter_info, validation_rules, groups, mo_name, sector_id, mo_rules,
                   other_pass>>
    /\ UNCHANGED <<evalVars, codecVars, checkVars>>

\* The for loop is exhausted: return errors.
ReturnErrors ==
    /\ pass_pc = "for"
    /\ rule_index > Len(mo_rules)
    /\ pass_pc' = "done"
    /\ UNCHANGED <<parameter_info, validation_rules, groups, mo_name, sector_id, mo_rules,
                   rule_index, executed_rules, errors, execution_log, other_pass>>
    /\ UNCHANGED <<evalVars, codecVars, checkVars>>

Sectors == {"S1"}

NextPass ==
    \/ \E mo \in {"M1", "M2", "M3"}, sector \in Sectors : StartPass(mo, sector)
    \/ SkipExecuted
    \/ ExecuteRule
    \/ ChainNext
    \/ ReturnErrors

SpecPass == InitPass /\ [][NextPass]_vars

\* The call has a next statement that completes: a rule whose filter
\* evaluation does not return blocks the call.
PassEnabled ==
    \/ pass_pc = "call"
    \/ /\ pass_pc = "for"
       /\ rule_index > Len(mo_rules)
    \/ /\ pass_pc = "for"
       /\ rule_index <= Len(mo_rules)
       /\ \/ mo_rules[rule_index].rule_id \in executed_rules
          \/ FilterReturns(mo_rules[rule_index], groups[mo_name])
    \/ /\ pass_pc = "chain"
       /\ ChainApplies(mo_rules[rule_index], mo_rules, executed_rules)
            => FilterReturns(mo_rules[next_rule_of(mo_rules[rule_index], mo_rules)],
                             groups[mo_name])

-----------------------------------------------------------------------------
(* Two calls of check_parameter_validation on one checker, interleaved     *)
(* The variables of the pass hold the locals of the call that is running;  *)
(* other_pass holds the locals of the call that is not.  self.parameter_info *)
(* and self.validation_rules are the attributes both calls read.           *)

\* Largest number of rules of M1 in the knowledge base two calls share.
MaxSharedRules == 2

SharedSectors == {"S1", "S2"}

InitShared ==
    /\ parameter_info = ParameterInfo
    /\ validation_rules \in {SortRules(loaded) : loaded \in
                               {l \in LoadedRules : Len(l) <= MaxSharedRules + 1}}
    /\ groups \in GroupChoices
    /\ mo_name = ""
    /\ sector_id = ""
    /\ mo_rules = <<>>
    /\ rule_index = 0
    /\ executed_rules = {}
    /\ errors = <<>>
    /\ pass_pc = "call"
    /\ execution_log = <<>>
    /\ other_pass = PassLocals("call")
    /\ EvalIdle
    /\ CodecIdle
    /\ CheckIdle

\* executed_rules of a call is a local of that call: `executed_rules = set()`
ExecutedShared(saved) == executed_rules

ExecutedOf(saved) == saved.executed_rules

\* The running call is suspended and the other call goes on.
SwitchPass ==
    /\ other_pass.pass_pc # "none"
    /\ other_pass' = [mo_name |-> mo_name, sector_id |-> sector_id, mo_rules |-> mo_rules,
                      rule_index |-> rule_index, executed_rules |-> executed_rules,
                      errors |-> errors, pass_pc |-> pass_pc,
                      execution_log |-> execution_log]
    /\ mo_name' = other_pass.mo_name
    /\ sector_id' = other_pass.sector_id
    /\ mo_rules' = other_pass.mo_rules
    /\ rule_index' = other_pass.rule_index
    /\ executed_rules' = ExecutedOf(other_pass)
    /\ errors' = other_pass.errors
    /\ pass_pc' = other_pass.pass_pc
    /\ execution_log' = other_pass.execution_log
    /\ UNCHANGED <<parameter_info, validation_rules, groups>>
    /\ UNCHANGED <<evalVars, codecVars, checkVars>>

NextShared ==
    \/ \E mo \in {"M1", "M2", "M3"}, sector \in SharedSectors : StartPass(mo, sector)
    \/ SkipExecuted
    \/ ExecuteRule
    \/ ChainNext
    \/ ReturnErrors
    \/ SwitchPass

SpecShared == InitShared /\ [][NextShared]_vars

-----------------------------------------------------------------------------
(* The two switch-group parsers and the matcher of the rule engine         *)
(*   ParameterChecker._parse_multi_value (src/parameter_checker.py)        *)
(*   ParameterCheckerV2.parse_multi_value_parameter / check_multi_value_match *)
(* Both parsers are only called on str values (astype(str), str(...)).     *)

separators == <<"&", ",", ";">>

\* `for sep in separators: if sep in value_str: parts = value_str.split(sep); break`
\* `else: parts = [value_str]`
SplitOnFirstSeparator(text) ==
    LET found == {i \in 1..Len(separators) : Contains(<<separators[i]>>, text)}
    IN IF found = {} THEN <<text>>
       ELSE Split(text, separators[CHOOSE i \in found : \A j \in found : i <= j])

_parse_multi_value(text) == ParseParts(SplitOnFirstSeparator(text), <<>>)

\* Largest number of tokens in a switch-group text.
MaxTokens == 3

\* name:state tokens, with and without blanks, a token without ':', a token
\* with a second ':'.
SwitchTokens ==
    {<<"x", ":", "1">>, <<"x", ":", "0">>, <<"y", ":", "0">>,
     <<" ", "y", " ", ":", " ", "1", " ">>, <<"z">>, <<"y", ":", "1", ":", "0">>}

RECURSIVE Joined(_)
Joined(n) ==
    IF n = 1 THEN SwitchTokens
    ELSE {t \o <<separators[i]>> \o u : t \in Joined(n - 1), i \in 1..Len(separators),
                                        u \in SwitchTokens}

SwitchTexts == {<<>>} \cup UNION {Joined(n) : n \in 1..MaxTokens}

\* expected_value of a rule on a multiple parameter
ExpectedTexts ==
    {<<"x", ":", "1">>, <<"x", ":", "1", "&", "y", ":", "0">>, <<"y", ":", "1">>}

InitCodec ==
    /\ switch_text \in SwitchTexts
    /\ expected_str \in ExpectedTexts
    /\ simple_switches = <<>>
    /\ engine_switches = <<>>
    /\ match_result = FALSE
    /\ switch_display = <<>>
    /\ display_switches = <<>>
    /\ codec_done = {}
    /\ EvalIdle
    /\ PassIdle
    /\ CheckIdle

\* switches = self._parse_multi_value(current_value)
ParseSimple ==
    /\ "simple" \notin codec_done
    /\ simple_switches' = _parse_multi_value(switch_text)
    /\ codec_done' = codec_done \cup {"simple"}
    /\ UNCHANGED <<switch_text, expected_str, engine_switches, match_result, switch_display,
                    display_switches>>
    /\ UNCHANGED <<evalVars, passVars, checkVars>>

\* current_switches = self.parse_multi_value_parameter(current_value)
ParseEngine ==
    /\ "engine" \notin codec_done
    /\ engine_switches' = parse_multi_value_parameter(switch_text)
    /\ codec_done' = codec_done \cup {"engine"}
    /\ UNCHANGED <<switch_text, expected_str, simple_switches, match_result, switch_display,
                    display_switches>>
    /\ UNCHANGED <<evalVars, passVars, checkVars>>

\* self.check_multi_value_match(current_value, expected_value, param_name)
MatchEngine ==
    /\ "match" \notin codec_done
    /\ match_result' = check_multi_value_match(switch_text, expected_str)
    /\ codec_done' = codec_done \cup {"match"}
    /\ UNCHANGED <<switch_text, expected_str, simple_switches, engine_switches, switch_display,
                    display_switches>>
    /\ UNCHANGED <<evalVars, passVars, checkVars>>

\* Keys of the dict _parse_multi_value builds, in insertion order.
RECURSIVE KeysInOrder(_, _)
KeysInOrder(parts, keys) ==
    IF parts = <<>> THEN keys
    ELSE LET at  == Find(<<":">>, Head(parts))
             key == Strip(SubSeq(Head(parts), 1, at - 1))
         IN IF at = 0 \/ HasItem(keys, key) THEN KeysInOrder(Tail(parts), keys)
            ELSE KeysInOrder(Tail(parts), Append(keys, key))

\* sep.join(parts)
RECURSIVE JoinWith(_, _)
JoinWith(parts, sep) ==
    IF parts = <<>> THEN <<>>
    ELSE IF Len(parts) = 1 THEN Head(parts)
    ELSE Head(parts) \o sep \o JoinWith(Tail(parts), sep)

\* '&'.join(f"{switch_name}:{state}" for switch_name, state in switches.items()),
\* the dict being the one parsed from current_value
current_switch_display(current_value) ==
    LET keys == KeysInOrder(SplitOnFirstSeparator(current_value), <<>>)
    IN JoinWith([i \in 1..Len(keys) |->
                    keys[i] \o <<":">> \o _parse_multi_value(current_value)[keys[i]]],
                <<"&">>)

\* current_switch_display = '&'.join(current_switch_str), from the parsed switches
DisplaySwitches ==
    /\ "simple" \in codec_done
    /\ "display" \notin codec_done
    /\ switch_display' = current_switch_display(switch_text)
    /\ codec_done' = codec_done \cup {"display"}
    /\ UNCHANGED <<switch_text, expected_str, simple_switches, engine_switches, match_result,
                    display_switches>>
    /\ UNCHANGED <<evalVars, passVars, checkVars>>

\* self._parse_multi_value on the displayed value
ParseDisplay ==
    /\ "display" \in codec_done
    /\ "parsed" \notin codec_done
    /\ display_switches' = _parse_multi_value(switch_display)
    /\ codec_done' = codec_done \cup {"parsed"}
    /\ UNCHANGED <<switch_text, expected_str, simple_switches, engine_switches, match_result,
                    switch_display>>
    /\ UNCHANGED <<evalVars, passVars, checkVars>>

NextCodec == ParseSimple \/ ParseEngine \/ MatchEngine \/ DisplaySwitches \/ ParseDisplay

SpecCodec == InitCodec /\ [][NextCodec]_vars

-----------------------------------------------------------------------------
(* ParameterChecker.check_single_param and its two row processors          *)
(*   src/parameter_checker.py and src/attached_assets/2_1757073671998.py   *)
(* The two files differ in _process_multi_value_param only.  Cells are     *)
(* text, so `tmp[param_name].astype(str)` leaves them as they are.  An     *)
(* entry of error_details is a sequence: <<>> for `{}`, one record for a   *)
(* filled dict; a key that a dict does not have is an empty field.  An     *)
(* element of expected_values is a str (single) or a dict with the keys    *)
(* switch_name and expected_state (multiple).                              *)

StrValue(text) ==
    [kind |-> "str", text |-> text, switch_name |-> <<>>, expected_state |-> <<>>]

DictValue(switch_name, expected_state) ==
    [kind |-> "dict", text |-> <<>>, switch_name |-> switch_name,
     expected_state |-> expected_state]

Variants == {"parameter_checker", "attached_assets"}

\* The conditions of the parameter are not looked at.
conditions_ignored(conditions, current_row) == TRUE

\* for cond in conditions: if not self._evaluate_condition(cond, current_row): ... break
all_conditions_met(conditions, current_row) ==
    \A i \in 1..Len(conditions) : _evaluate_condition("str", conditions[i], current_row)

\* current_switch_value = switches.get(switch_name, '').strip()
current_switch_value(switches, switch_name) == Strip(DictGet(switches, switch_name, <<>>))

\* The loop over expected_switches: one switch_errors dict per expected
\* switch whose current state differs, in the order of expected_values.
RECURSIVE switch_errors(_, _)
switch_errors(expected_switches, switches) ==
    IF expected_switches = <<>> THEN <<>>
    ELSE LET switch_name    == Head(expected_switches).switch_name
             expected_state == Head(expected_switches).expected_state
         IN (IF current_switch_value(switches, switch_name) # expected_state
             THEN <<[switch_name |-> switch_name,
                     expected    |-> switch_name \o <<":">> \o expected_state,
                     actual      |-> switch_name \o <<":">>
                                       \o current_switch_value(switches, switch_name)]>>
             ELSE <<>>)
            \o switch_errors(Tail(expected_switches), switches)

\* mod_params.append(f"{switch_name}={expected_state}") for the same switches
RECURSIVE mod_params(_, _)
mod_params(expected_switches, switches) ==
    IF expected_switches = <<>> THEN <<>>
    ELSE LET switch_name    == Head(expected_switches).switch_name
             expected_state == Head(expected_switches).expected_state
         IN (IF current_switch_value(switches, switch_name) # expected_state
             THEN <<switch_name \o <<"=">> \o expected_state>>
             ELSE <<>>)
            \o mod_params(Tail(expected_switches), switches)

\* attached variant: '&'.join(f"{cfg['switch_name']}:{cfg['expected_state']}" for cfg in expected_values)
expected_switch_display(expected_values) ==
    JoinWith([i \in 1..Len(expected_values) |->
                 expected_values[i].switch_name \o <<":">> \o expected_values[i].expected_state],
             <<"&">>)

\* No command is built.
NoCommand(mo, parameter_id, text) == <<>>

\* f"MOD {mo_name}:{parameter_id}={text};"
ModCommand(mo, parameter_id, text) ==
    <<"M", "O", "D", " ">> \o mo \o <<":">> \o parameter_id \o <<"=">> \o text \o <<";">>

\* What one row appends when error_found: the flag, the entry, the command.
MultiFlagged(v, info, mo, current_value, errs, params) ==
    [valid  |-> FALSE,
     detail |-> <<[parameter_name |-> info.parameter_name,
                   parameter_id   |-> info.parameter_id,
                   expected_value |->
                       IF v = "attached_assets" THEN expected_switch_display(info.expected_values)
                       ELSE JoinWith([i \in 1..Len(errs) |-> errs[i].expected], <<"&">>),
                   current_value  |->
                       IF v = "attached_assets" THEN current_switch_display(current_value)
                       ELSE JoinWith([i \in 1..Len(errs) |-> errs[i].actual], <<"&">>),
                   switch_errors  |-> errs,
                   mo_name        |-> mo,
                   mismatch_only  |-> v = "parameter_checker"]>>,
     mod    |-> IF params # <<>> THEN ModCommand(mo, info.parameter_id, JoinWith(params, <<";">>))
                ELSE <<>>]

\* The row is left valid: error_details.append({}); mod_commands.append('')
RowValid == [valid |-> TRUE, detail |-> <<>>, mod |-> <<>>]

MultiChecked(v, info, mo, current_value, errs, params) ==
    IF errs # <<>> THEN MultiFlagged(v, info, mo, current_value, errs, params) ELSE RowValid

\* One iteration of the loop of _process_multi_value_param.
ProcessMultiValueRow(v, info, mo, current_row) ==
    IF ~all_conditions_met(info.conditions, current_row) THEN RowValid
    ELSE MultiChecked(v, info, mo, current_row[info.parameter_name],
                      switch_errors(info.expected_values,
                                    _parse_multi_value(current_row[info.parameter_name])),
                      mod_params(info.expected_values,
                                 _parse_multi_value(current_row[info.parameter_name])))

\* str() of an element of the expected_values of a multiple parameter:
\* {'switch_name': '<name>', 'expected_state': '<state>'}
DictText(cfg) ==
    <<"{", "'", "s", "w", "i", "t", "c", "h", "_", "n", "a", "m", "e", "'", ":", " ", "'">>
    \o cfg.switch_name
    \o <<"'", ",", " ", "'", "e", "x", "p", "e", "c", "t", "e", "d", "_", "s", "t", "a", "t",
         "e", "'", ":", " ", "'">>
    \o cfg.expected_state \o <<"'", "}">>

\* expected_value = param_info["expected_values"][0] if param_info["expected_values"] else ''
\* as text: the single path also gets a multiple parameter that has fewer
\* than two expected switches, and then the value is a dict.
ExpectedIsDict(info) == info.expected_values # <<>> /\ info.expected_values[1].kind = "dict"

ExpectedValueText(info) ==
    IF info.expected_values = <<>> THEN <<>>
    ELSE IF ExpectedIsDict(info) THEN DictText(info.expected_values[1])
    ELSE info.expected_values[1].text

\* current_value != expected_value: a str never equals a dict
SingleDiffers(info, current_value) ==
    IF ExpectedIsDict(info) THEN TRUE ELSE current_value # ExpectedValueText(info)

\* The loop iteration without the comparison of the values: every row
\* that meets the conditions is reported.
ProcessSingleValueRowAnyValue(info, mo, current_row) ==
    IF all_conditions_met(info.conditions, current_row)
    THEN [valid  |-> FALSE,
          detail |-> <<[parameter_name |-> info.parameter_name,
                        parameter_id   |-> info.parameter_id,
                        expected_value |-> ExpectedValueText(info),
                        current_value  |-> current_row[info.parameter_name],
                        switch_errors  |-> <<>>,
                        mo_name        |-> mo,
                        mismatch_only  |-> FALSE]>>,
          mod    |-> ModCommand(mo, info.parameter_id, ExpectedValueText(info))]
    ELSE RowValid

\* One iteration of the loop of _process_single_value_param.
ProcessSingleValueRow(info, mo, current_row) ==
    IF all_conditions_met(info.conditions, current_row)
       /\ SingleDiffers(info, current_row[info.parameter_name])
    THEN [valid  |-> FALSE,
          detail |-> <<[parameter_name |-> info.parameter_name,
                        parameter_id   |-> info.parameter_id,
                        expected_value |-> ExpectedValueText(info),
                        current_value  |-> current_row[info.parameter_name],
                        switch_errors  |-> <<>>,
                        mo_name        |-> mo,
                        mismatch_only  |-> FALSE]>>,
          mod    |-> ModCommand(mo, info.parameter_id, ExpectedValueText(info))]
    ELSE RowValid

-----------------------------------------------------------------------------
(* Inputs of check_single_param                                            *)

\* Largest number of expected switches of a multiple parameter.
MaxSwitches == 2

\* Largest number of rows of the MO.
MaxRows == 2

CheckedMo   == <<"M">>
ParameterId == <<"I">>
SwitchNames == {<<"x">>, <<"y">>, <<"z">>}
StateOn     == <<"1">>

\* expected_values of a multiple parameter: each switch once, expected on.
ExpectedSwitchLists ==
    UNION {{[i \in 1..n |-> DictValue(names[i], StateOn)] :
              names \in {s \in [1..n -> SwitchNames] :
                           \A i, j \in 1..n : i # j => s[i] # s[j]}} :
           n \in 0..MaxSwitches}

\* conditions of the knowledge rows of a parameter
ConditionLists ==
    {<< <<>> >>, << <<"b", "=", "1", "0">> >>, << <<>>, <<"b", "=", "1", "0">> >>}

\* param_info as load_parameter_knowledge builds it; `configured` is false
\* when the knowledge base has no entry for the parameter.
ParamInfos ==
    {[configured |-> c, parameter_id |-> ParameterId, parameter_name |-> NameA,
      parameter_type |-> "single", expected_values |-> <<StrValue(Str10)>>, conditions |-> <<cond>>] :
        c \in BOOLEAN, cond \in {<<>>, <<"b", "=", "1", "0">>}}
    \cup {[configured |-> TRUE, parameter_id |-> ParameterId, parameter_name |-> NameS,
           parameter_type |-> "multiple", expected_values |-> e, conditions |-> conds] :
             e \in ExpectedSwitchLists, conds \in ConditionLists}

\* Current values of the switch group.
CurrentSwitchTexts ==
    {<<"x", ":", "1", "&", "y", ":", "1">>, <<"x", ":", "0", "&", "y", ":", "1">>,
     <<"y", ":", "0", ",", "x", ":", "0">>, <<"x", ":", "1">>, <<>>}

\* A row of a data set that has no column s.
DataRowNoS(a, b) == [q \in {NameA, NameB} |-> IF q = NameA THEN a ELSE b]

CheckRows ==
    {DataRow(a, Str10, sw) : a \in {Str10, Str9}, sw \in CurrentSwitchTexts}
    \cup {DataRow(a, Str9, SwitchesOn) : a \in {Str10, Str9}}
    \cup {DataRow(<<" ", "1", "0">>, Str10, SwitchesOn)}

\* Row sets of the MO: none, up to MaxRows full rows, one row without s.
CheckData ==
    UNION {[1..n -> CheckRows] : n \in 0..MaxRows} \cup {<<DataRowNoS(Str9, Str10)>>}

-----------------------------------------------------------------------------
(* check_single_param as a state machine                                   *)

InitCheck ==
    /\ variant \in Variants
    /\ param_info \in ParamInfos
    /\ tmp \in CheckData
    /\ row_index = 0
    /\ valid_mask = <<>>
    /\ error_details = <<>>
    /\ mod_commands = <<>>
    /\ check_pc = "call"
    /\ EvalIdle
    /\ PassIdle
    /\ CodecIdle

\* The early returns, then `if len(param_info["expected_values"]) > 1`.
CheckBegin ==
    /\ check_pc = "call"
    /\ IF tmp = <<>> \/ param_info.parameter_name \notin DOMAIN tmp[1]
          \/ ~param_info.configured
       THEN /\ check_pc' = "empty"
            /\ UNCHANGED <<row_index, valid_mask>>
       ELSE /\ valid_mask' = [i \in 1..Len(tmp) |-> TRUE]
            /\ row_index' = 1
            /\ check_pc' = IF Len(param_info.expected_values) > 1 THEN "multi" ELSE "single"
    /\ UNCHANGED <<variant, param_info, tmp, error_details, mod_commands>>
    /\ UNCHANGED <<evalVars, passVars, codecVars>>

\* The row's flag, entry and command are stored.
StoreRow(r) ==
    /\ valid_mask' = [valid_mask EXCEPT ![row_index] = r.valid]
    /\ error_details' = Append(error_details, r.detail)
    /\ mod_commands' = Append(mod_commands, r.mod)
    /\ row_index' = row_index + 1

ProcessMultiRow ==
    /\ check_pc = "multi"
    /\ row_index <= Len(tmp)
    /\ StoreRow(ProcessMultiValueRow(variant, param_info, CheckedMo, tmp[row_index]))
    /\ UNCHANGED <<variant, param_info, tmp, check_pc>>
    /\ UNCHANGED <<evalVars, passVars, codecVars>>

ProcessSingleRow ==
    /\ check_pc = "single"
    /\ row_index <= Len(tmp)
    /\ StoreRow(ProcessSingleValueRow(param_info, CheckedMo, tmp[row_index]))
    /\ UNCHANGED <<variant, param_info, tmp, check_pc>>
    /\ UNCHANGED <<evalVars, passVars, codecVars>>

\* result['valid'] = valid_mask ...; return invalid_rows
CheckReturn ==
    /\ check_pc \in {"multi", "single"}
    /\ row_index > Len(tmp)
    /\ check_pc' = "done"
    /\ UNCHANGED <<variant, param_info, tmp, row_index, valid_mask, error_details, mod_commands>>
    /\ UNCHANGED <<evalVars, passVars, codecVars>>

NextCheck == CheckBegin \/ ProcessMultiRow \/ ProcessSingleRow \/ CheckReturn

SpecCheck == InitCheck /\ [][NextCheck]_vars

-----------------------------------------------------------------------------
(* Reference readings used by the claims about the condition evaluator     *)

IsStr == condition_type = "str"

\* The atom holds on the row: its comparison is made and is true.
AtomTrue(t, row) ==
    LET r == evaluate_single_condition(t, row) IN ~r.exc /\ r.val

\* The comparison of the atom can be made (no exception).
AtomDefined(t, row) == ~evaluate_single_condition(t, row).exc

\* Truth value of an operand that is an atom or a parenthesized atom.
OperandAtom(o) == IF Len(o) = 1 THEN o[1] ELSE o[2]

RECURSIVE ParenDepthOk(_, _)
ParenDepthOk(items, depth) ==
    IF items = <<>> THEN depth = 0
    ELSE IF Head(items) = LP THEN ParenDepthOk(Tail(items), depth + 1)
    ELSE IF Head(items) = RP THEN depth > 0 /\ ParenDepthOk(Tail(items), depth - 1)
    ELSE ParenDepthOk(Tail(items), depth)

\* The parentheses of the expression are balanced.
Balanced(items) == ParenDepthOk(items, 0)

\* C1: for every expression with balanced parentheses (empty and nested
\* groups included) evaluate_complex_condition terminates: every pass of the
\* loop `while '(' in processed_condition` resolves at least one group or
\* ends the call, so that an expression without '(' is reached after
\* finitely many passes, and the value returned is a boolean.
C1_BalancedTerminates ==
    /\ (IsStr /\ Balanced(condition) /\ pc = "loop" /\ HasItem(processed_condition, LP)) =>
          LET r == evaluate_bracket_content(processed_condition, current_params)
          IN r.exc \/ r.seq # processed_condition
    /\ (pc = "done" => result \in BOOLEAN)

\* A parenthesis-free conjunction "A1 and A2 and ..." of comparison atoms.
IsConjunction(items) ==
    /\ Len(items) % 2 = 1
    /\ \A i \in 1..Len(items) :
          IF i % 2 = 1 THEN items[i] \in AllAtoms ELSE items[i] = AND

ConjunctionHolds(items, row) ==
    \A i \in 1..Len(items) : i % 2 = 1 => AtomTrue(items[i], row)

\* C2: an expression written without parentheses as a conjunction of
\* comparison atoms evaluates to true exactly when every atom holds on the
\* row.
C2_ConjunctionOfAtoms ==
    (IsStr /\ pc = "done" /\ IsConjunction(condition)) =>
        (result <=> ConjunctionHolds(condition, current_params))

\* C3: 'and' binds tighter than 'or' between operands that are comparison
\* atoms or parenthesized groups: "X or Y and Z" is X OR (Y AND Z) and
\* "X and Y or Z" is (X AND Y) OR Z.
C3_AndBindsTighter ==
    \A x, y, z \in MixedOperands :
        LET X == AtomTrue(OperandAtom(x), current_params)
            Y == AtomTrue(OperandAtom(y), current_params)
            Z == AtomTrue(OperandAtom(z), current_params)
            defined == \A o \in {x, y, z} : AtomDefined(OperandAtom(o), current_params)
        IN (IsStr /\ pc = "done" /\ defined) =>
              /\ (condition = x \o <<OR>> \o y \o <<AND>> \o z => (result <=> (X \/ (Y /\ Z))))
              /\ (condition = x \o <<AND>> \o y \o <<OR>> \o z => (result <=> ((X /\ Y) \/ Z)))

\* C4: an empty and a whitespace-only expression evaluate to true for every
\* row in evaluate_complex_condition and in _evaluate_condition; the latter
\* also returns true for a condition that is not a string.
C4_EmptyIsTrue ==
    /\ (IsStr /\ Strip(Flatten(condition)) = <<>> /\ pc = "done") => result = TRUE
    /\ ((~IsStr \/ Strip(Flatten(condition)) = <<>>) /\ simple_pc = "done") => simple_result = TRUE

\* C5: a group nested inside another group contributes its own truth value
\* to the enclosing group: "((A) and B)" is A AND B, "((A) or B)" is A OR B.
C5_NestedGroupValue ==
    \A x, y \in AtomOperands :
        LET A == AtomTrue(x[1], current_params)
            B == AtomTrue(y[1], current_params)
            defined == AtomDefined(x[1], current_params) /\ AtomDefined(y[1], current_params)
        IN (IsStr /\ pc = "done" /\ defined) =>
              /\ (condition = Paren(Paren(x) \o <<AND>> \o y) => (result <=> (A /\ B)))
              /\ (condition = Paren(Paren(x) \o <<OR>> \o y) => (result <=> (A \/ B)))

\* The group (content between one pair of parentheses) is true on the row.
GroupTrue(content, row) ==
    LET r == evaluate_simple_conditions(content, row) IN ~r.exc /\ r.val

\* C6: a disjunction "(G1) or (G2)" of non-nested groups evaluates to true
\* exactly when at least one group is true on the row.
C6_DisjunctionOfGroups ==
    \A g, h \in ChainUpTo(AtomOperands, 2) :
        (IsStr /\ pc = "done" /\ condition = Paren(g) \o <<OR>> \o Paren(h)) =>
            (result <=> (GroupTrue(g, current_params) \/ GroupTrue(h, current_params)))

\* Comparison of two trimmed strings as the specification reads it: as
\* numbers when both parse as numbers, as strings otherwise.
SpecCompare(op, cur, exp) ==
    LET c == try_numeric(cur)
        e == try_numeric(exp)
        both == c.isnum /\ e.isnum
        eq == IF both THEN c.num * e.den = e.num * c.den ELSE cur = exp
        lt == IF both THEN c.num * e.den < e.num * c.den ELSE StrLess(cur, exp)
    IN CASE op = <<"=">>      -> eq
         [] op = <<"!", "=">> -> ~eq
         [] op = <<"<">>      -> lt
         [] op = <<"<", "=">> -> lt \/ eq
         [] op = <<">">>      -> ~lt /\ ~eq
         [] op = <<">", "=">> -> ~lt

\* C7: a comparison atom (here as the only content of a group) compares
\* numerically when row value and literal both parse as numbers and
\* otherwise compares the two trimmed strings as strings, without exception.
C7_NumericElseString ==
    \A n \in ParamNames, op \in OperatorSet, v \in LitValues :
        (IsStr /\ pc = "done" /\ condition = Paren(<<n \o op \o v>>)) =>
            (result <=> SpecCompare(op, Strip(RowGet(current_params, n)), v))

-----------------------------------------------------------------------------
(* Claims about the rule pass                                              *)

\* The pass reached the for loop (the MO has rules and a row set).
PassRan == pass_pc \in {"for", "chain", "done"} /\ mo_rules # <<>> /\ mo_name \in DOMAIN groups

\* C8: in one pass of check_parameter_validation no rule id is executed
\* more than once, whatever the next_rule references are.
C8_AtMostOnce ==
    \A i, j \in 1..Len(execution_log) :
        i # j => execution_log[i] # execution_log[j]

\* A finished pass in which one rule is the next_rule of two earlier rules of
\* the list, was executed, and is met again later by the for loop.
C8_Witness ==
    /\ pass_pc = "done"
    /\ \E i, j, k \in 1..Len(mo_rules) :
          /\ i < j /\ j < k
          /\ mo_rules[i].next_rule = mo_rules[k].rule_id
          /\ mo_rules[j].next_rule = mo_rules[k].rule_id
          /\ \E p \in 1..Len(execution_log) : execution_log[p] = mo_rules[k].rule_id

\* C9: chaining is immediate for every executed rule: when a rule finishes
\* (run from the list or as another rule's next_rule) and its next_rule names
\* a rule of the MO that has not executed yet, that rule is the very next one
\* executed.
C9_ChainImmediate ==
    \A p \in 1..Len(execution_log) :
        LET r == mo_rules[FindRule(mo_rules, execution_log[p])]
            n == next_rule_of(r, mo_rules)
            pending == n # 0 /\ \A q \in 1..p : execution_log[q] # mo_rules[n].rule_id
        IN pending =>
              /\ (p < Len(execution_log) => execution_log[p + 1] = mo_rules[n].rule_id)
              /\ (pass_pc = "done" => p < Len(execution_log))

\* The next_rule references of the rules contain a cycle: following them
\* from some rule never reaches a rule without (resolvable) next_rule.
RECURSIVE ChainRunsOn(_, _, _)
ChainRunsOn(rules, i, steps) ==
    IF i = 0 THEN FALSE
    ELSE IF steps = 0 THEN TRUE
    ELSE ChainRunsOn(rules, next_rule_of(rules[i], rules), steps - 1)

HasCycle(rules) == \E i \in 1..Len(rules) : ChainRunsOn(rules, i, Len(rules))

\* C10: when the next_rule references of the MO's rules form a cycle, the
\* pass ends with a CyclicRuleChain diagnostic instead of completing normally.
C10_CycleDiagnosed ==
    (pass_pc = "done" /\ PassRan /\ HasCycle(mo_rules)) =>
        \E k \in 1..Len(errors) : errors[k].error_type = "CyclicRuleChain"

-----------------------------------------------------------------------------
(* Claims about the records of a pass                                      *)

\* The pass of an MO that has rules and a row set is finished.
PassDone == pass_pc = "done" /\ PassRan

\* The parameters that have a ParameterDefinition for the MO.
DefinedParams(mo) == DOMAIN DictGet(parameter_info, mo, <<>>)

\* The parameter names of a rule's parameter_combination.
CombinationOf(rule) ==
    LET names == StripEach(Split(rule.parameter_combination, "&"))
    IN {names[i] : i \in 1..Len(names)}

\* The row passes the filter of the rule.
RowPasses(rule, row) ==
    rule.filter_condition = <<>> \/ evaluate_complex_condition(rule.filter_condition, row)

\* The row has a value for the parameter and it differs from the expected
\* value (by switches for a parameter declared multiple).
Mismatches(rule, row, p) ==
    /\ p \in DOMAIN row
    /\ ~ParamMatches(DictGet(parameter_info, rule.mo_name, <<>>), p, Strip(row[p]),
                     rule.expected_value)

\* Indices of the records of the rule about the row (0: the whole data set).
RecordsOf(rule, rowidx) ==
    {k \in 1..Len(errors) : errors[k].rule_id = rule.rule_id /\ errors[k].row = rowidx}

\* The parameters a record reports as mismatched.
ReportedParams(e) ==
    {e.error_details[d].param_name : d \in 1..Len(e.error_details)}
    \cup (IF e.param_name = None THEN {} ELSE {e.param_name})

\* C11: a parameter of a parameter_combination that has no ParameterDefinition
\* for the MO is skipped, also when the row has a column of that name: no
\* record reports it, and the defined parameters of the combination that
\* mismatch are still reported.
C11_UnknownParameterSkipped ==
    PassDone =>
        \A i \in 1..Len(mo_rules), k \in 1..Len(groups[mo_name]) :
            LET rule == mo_rules[i]
                row  == groups[mo_name][k]
            IN \A p \in CombinationOf(rule) :
                  IF p \in DefinedParams(rule.mo_name)
                  THEN (rule.validation_type = "misconfigured" /\ RowPasses(rule, row)
                        /\ Mismatches(rule, row, p))
                       => \E e \in RecordsOf(rule, k) : p \in ReportedParams(errors[e])
                  ELSE \A e \in RecordsOf(rule, k) : p \notin ReportedParams(errors[e])

\* C12 as stated: an MO without row set gets exactly one data_absent record
\* and none of its rules is executed, however many rules it has.
C12_DataAbsentOnce ==
    (pass_pc = "done" /\ mo_name \notin DOMAIN groups) =>
        /\ Len(errors) = 1
        /\ errors[1].error_type = "data_absent"
        /\ errors[1].mo_name = mo_name
        /\ execution_log = <<>>

\* C12 amended: an MO that has at least one validation rule and no row set
\* gets exactly one data_absent record, whatever the number of its rules,
\* and none of its rules is executed.
C12_DataAbsentOnceWithRules ==
    (pass_pc = "done" /\ mo_name \notin DOMAIN groups /\ mo_rules # <<>>) =>
        /\ Len(errors) = 1
        /\ errors[1].error_type = "data_absent"
        /\ errors[1].mo_name = mo_name
        /\ execution_log = <<>>

\* A finished pass of an MO with several rules and no row set.
C12_Witness ==
    /\ pass_pc = "done"
    /\ mo_name \notin DOMAIN groups
    /\ Len(mo_rules) >= 2
    /\ Len(errors) = 1

\* C13: a rule of type missing leaves exactly one record, about the whole
\* data set, when no row passes its filter (an empty row set included), and
\* no record when some row passes; never one per row.
C13_MissingOncePerRule ==
    PassDone =>
        \A i \in 1..Len(mo_rules) :
            LET rule == mo_rules[i]
                survivors == {k \in 1..Len(groups[mo_name]) :
                                 RowPasses(rule, groups[mo_name][k])}
                records == {k \in 1..Len(errors) : errors[k].rule_id = rule.rule_id}
            IN rule.validation_type = "missing" =>
                  /\ Cardinality(records) = IF survivors = {} THEN 1 ELSE 0
                  /\ \A e \in records : errors[e].row = 0 /\ errors[e].error_type = "missing"

\* A finished pass in which a missing rule reported on a row set that has
\* rows, none of which passed the filter.
C13_Witness ==
    /\ PassDone
    /\ groups[mo_name] # <<>>
    /\ \E k \in 1..Len(errors) : errors[k].error_type = "missing"

\* C14: a rule of type misconfigured leaves, for each row that passes its
\* filter, exactly one record when some parameter of the combination
\* mismatches and none otherwise; the record of a combination of several
\* parameters lists every mismatched parameter and no other.
C14_OneRecordPerRow ==
    PassDone =>
        \A i \in 1..Len(mo_rules), k \in 1..Len(groups[mo_name]) :
            LET rule == mo_rules[i]
                row  == groups[mo_name][k]
                mismatched == {p \in CombinationOf(rule) : Mismatches(rule, row, p)}
            IN rule.validation_type = "misconfigured" =>
                  /\ Cardinality(RecordsOf(rule, k)) =
                        IF RowPasses(rule, row) /\ mismatched # {} THEN 1 ELSE 0
                  /\ \A e \in RecordsOf(rule, k) :
                        /\ errors[e].error_type = "misconfigured"
                        /\ ReportedParams(errors[e]) = mismatched
                        /\ Len(errors[e].error_details) \in {0, Cardinality(mismatched)}

\* A finished pass with a record that lists two mismatched parameters of a
\* combination.
C14_Witness ==
    /\ PassDone
    /\ \E k \in 1..Len(errors) :
          /\ errors[k].error_type = "misconfigured"
          /\ Len(errors[k].error_details) = 2

-----------------------------------------------------------------------------
(* Claims about the switch-group codec and the matcher                     *)

\* decode of the specification: the text is split on the first of '&', ',',
\* ';' that occurs in it (one token when none does); a token with ':' maps
\* the trimmed text before its first ':' to the trimmed text after it (a name
\* given twice keeps its last state).
Decode(text) ==
    LET present == {i \in 1..Len(separators) : \E k \in 1..Len(text) : text[k] = separators[i]}
        tokens  == IF present = {} THEN <<text>>
                   ELSE Split(text, separators[CHOOSE i \in present : \A j \in present : i <= j])
        pairs   == {i \in 1..Len(tokens) : \E k \in 1..Len(tokens[i]) : tokens[i][k] = ":"}
        colon(i) == CHOOSE k \in 1..Len(tokens[i]) :
                       tokens[i][k] = ":" /\ \A m \in 1..(k - 1) : tokens[i][m] # ":"
        name(i)  == Strip(SubSeq(tokens[i], 1, colon(i) - 1))
        state(i) == Strip(SubSeq(tokens[i], colon(i) + 1, Len(tokens[i])))
    IN [n \in {name(i) : i \in pairs} |->
          state(CHOOSE i \in pairs : name(i) = n /\ \A j \in pairs : name(j) = n => j <= i)]

\* State of a switch in a decoded value, the empty string when it is absent.
StateOf(switches, sw) == IF sw \in DOMAIN switches THEN switches[sw] ELSE <<>>

\* C15: both parsers, _parse_multi_value and parse_multi_value_parameter,
\* return decode(text) for every text: split on the first of '&', ',', ';'
\* present, tokens without ':' dropped, trimmed name -> trimmed state.
C15_BothParsersDecode ==
    /\ "simple" \in codec_done => simple_switches = Decode(switch_text)
    /\ "engine" \in codec_done => engine_switches = Decode(switch_text)

\* C16: the multi-value match succeeds exactly when every switch of the
\* expected set has its expected state in the decoded current value, an
\* absent switch counting as the empty string; other switches of the current
\* value never matter.
C16_MatchExpectedSwitches ==
    "match" \in codec_done =>
        (match_result <=>
            \A sw \in DOMAIN Decode(expected_str) :
                StateOf(Decode(switch_text), sw) = Decode(expected_str)[sw])

-----------------------------------------------------------------------------
(* Claim about the comma form of conditions                                *)

\* The clauses 'param=value' of the comma conditions, with their two sides.
EqClauses ==
    {[text |-> AtomA_eq, name |-> NameA, value |-> <<"1", "0">>],
     [text |-> AtomB_eq, name |-> NameB, value |-> <<"1", "0">>]}

\* The clause holds on the row: trimmed string equality, a missing parameter
\* being the empty string.
ClauseTrue(clause, row) == Strip(RowGet(row, clause.name)) = clause.value

\* C20: a condition of comma-separated clauses 'param=value' is true exactly
\* when every clause holds on the row, for the simple evaluator
\* _evaluate_condition and, with the same result, for the engine's evaluator
\* evaluate_complex_condition.
C20_CommaFormBothEvaluators ==
    \A x, y \in EqClauses :
        (IsStr /\ condition = <<x.text, COMMA, y.text>>) =>
            LET holds == ClauseTrue(x, current_params) /\ ClauseTrue(y, current_params)
            IN /\ simple_pc = "done" => simple_result = holds
               /\ pc = "done" => result = holds

-----------------------------------------------------------------------------
(* Claims about check_single_param                                         *)

CheckDone == check_pc = "done"

\* The expected switches whose state in the decoded current value differs
\* from the expected state, in the order of the expected switches.
RECURSIVE Differing(_, _)
Differing(expected, decoded) ==
    IF expected = <<>> THEN <<>>
    ELSE (IF StateOf(decoded, Head(expected).switch_name) # Head(expected).expected_state
          THEN <<Head(expected)>> ELSE <<>>)
         \o Differing(Tail(expected), decoded)

\* The clause 'name=value' as a record: the trimmed texts before and after
\* its first '='.
ClauseOf(text) ==
    LET eq == CHOOSE k \in 1..Len(text) :
                  text[k] = "=" /\ \A m \in 1..(k - 1) : text[m] # "="
    IN [name  |-> Strip(SubSeq(text, 1, eq - 1)),
        value |-> Strip(SubSeq(text, eq + 1, Len(text)))]

\* The row satisfies every condition of the parameter: each 'name=value'
\* clause of each condition names a column whose trimmed value is the value.
ConditionsHold(conditions, row) ==
    \A i \in 1..Len(conditions) :
        \A k \in 1..Len(StripParts(Split(conditions[i], ","))) :
            LET clause == StripParts(Split(conditions[i], ","))[k]
            IN /\ \E m \in 1..Len(clause) : clause[m] = "="
               /\ ClauseTrue(ClauseOf(clause), row)

\* C17: for a multi-value parameter, the mismatch list of a flagged row holds
\* exactly the expected switches whose current state differs, in the order
\* of the expected switches, and the entry's expected_value and
\* current_value show those switches only ('&'-joined name:state).
C17_AllMismatchesOnly ==
    (CheckDone /\ param_info.parameter_type = "multiple") =>
        \A i \in 1..Len(tmp) : ~valid_mask[i] =>
            LET decoded == Decode(tmp[i][NameS])
                d == Differing(param_info.expected_values, decoded)
                e == error_details[i]
            IN /\ Len(e) = 1
               /\ [k \in 1..Len(e[1].switch_errors) |-> e[1].switch_errors[k].switch_name]
                      = [k \in 1..Len(d) |-> d[k].switch_name]
               /\ e[1].expected_value
                      = JoinWith([k \in 1..Len(d) |->
                                    d[k].switch_name \o <<":">> \o d[k].expected_state], <<"&">>)
               /\ e[1].current_value
                      = JoinWith([k \in 1..Len(d) |->
                                    d[k].switch_name \o <<":">>
                                        \o StateOf(decoded, d[k].switch_name)], <<"&">>)

\* C18: for a multi-value parameter, a row that meets the conditions and has
\* mismatched switches gets the command MOD <mo_name>:<parameter_id>=
\* followed by <switch>=<expected state>; for each mismatched switch, in
\* the order of the mismatches, and for no other switch.
C18_CommandNamesMismatchesOnly ==
    (CheckDone /\ param_info.parameter_type = "multiple") =>
        \A i \in 1..Len(tmp) :
            LET d == Differing(param_info.expected_values, Decode(tmp[i][NameS]))
            IN (ConditionsHold(param_info.conditions, tmp[i]) /\ d # <<>>) =>
                   mod_commands[i]
                       = <<"M", "O", "D", " ">> \o CheckedMo \o <<":">> \o param_info.parameter_id
                         \o <<"=">>
                         \o Flatten([k \in 1..Len(d) |->
                                       d[k].switch_name \o <<"=">> \o d[k].expected_state
                                           \o <<";">>])

\* The entry and the command of a row of a single-value parameter whose
\* value is reported.
SingleReported(i) ==
    /\ ~valid_mask[i]
    /\ Len(error_details[i]) = 1
    /\ error_details[i][1].current_value = tmp[i][NameA]
    /\ error_details[i][1].expected_value = param_info.expected_values[1].text
    /\ mod_commands[i] = <<"M", "O", "D", " ">> \o CheckedMo \o <<":">> \o param_info.parameter_id
                           \o <<"=">> \o param_info.expected_values[1].text \o <<";">>

\* The row of a single-value parameter is not reported.
SingleSilent(i) == valid_mask[i] /\ error_details[i] = <<>> /\ mod_commands[i] = <<>>

\* C19 as stated: for a single-value parameter, each row whose value differs
\* from the expected value produces exactly one entry with the row's current
\* value, the expected value and the command MOD <mo_name>:<parameter_id>=
\* <expected_value>; and each row whose value equals it produces none.
C19_EveryDifferingRowReported ==
    (CheckDone /\ param_info.parameter_type = "single") =>
        \A i \in 1..Len(tmp) :
            IF tmp[i][NameA] # param_info.expected_values[1].text
            THEN SingleReported(i) ELSE SingleSilent(i)

\* C19 amended: for a single-value parameter, each row that meets the
\* parameter's conditions and whose value differs from the expected value
\* produces exactly one entry with the row's current value, the expected
\* value and the command MOD <mo_name>:<parameter_id>=<expected_value>; and
\* every other row produces none.
C19_DifferingRowUnderConditionReported ==
    (CheckDone /\ param_info.parameter_type = "single") =>
        \A i \in 1..Len(tmp) :
            IF ConditionsHold(param_info.conditions, tmp[i])
               /\ tmp[i][NameA] # param_info.expected_values[1].text
            THEN SingleReported(i) ELSE SingleSilent(i)

\* C19 witness: a finished check of a single-value parameter with one row
\* reported and one row that differs but does not meet the condition.
C19_Witness ==
    /\ CheckDone
    /\ param_info.parameter_type = "single"
    /\ \E i, j \in 1..Len(tmp) :
          /\ ~valid_mask[i]
          /\ valid_mask[j]
          /\ tmp[j][NameA] # param_info.expected_values[1].text
          /\ ~ConditionsHold(param_info.conditions, tmp[j])

-----------------------------------------------------------------------------
(* Claims about the matching method                                        *)

\* C21: the single-value match is string equality after trimming the
\* current and the expected value: a row of a single-value parameter that
\* meets the conditions and whose trimmed value is the trimmed expected
\* value is left valid by _process_single_value_param.
C21_SingleMatchTrims ==
    (CheckDone /\ param_info.parameter_type = "single") =>
        \A i \in 1..Len(tmp) :
            Strip(tmp[i][NameA]) = Strip(param_info.expected_values[1].text)
                => valid_mask[i]

\* C22: decoding a text, encoding the result as name:state pairs joined by
\* '&' and decoding again gives the switch-to-state map of the first
\* decoding, for every text.
C22_DecodeEncodeDecode ==
    ("parsed" \in codec_done) => display_switches = simple_switches

-----------------------------------------------------------------------------
(* Claims about interleaved passes                                         *)

\* The error list of a pass over the rules of one MO that nothing
\* interrupts: the rules in list order, a rule already executed skipped, and
\* after each rule its next_rule when that is a rule of the MO not executed
\* yet.
RECURSIVE AloneFrom(_, _, _, _, _)
AloneFrom(rules, i, executed, mo, sector) ==
    IF i > Len(rules) THEN <<>>
    ELSE IF rules[i].rule_id \in executed THEN AloneFrom(rules, i + 1, executed, mo, sector)
    ELSE LET chained == {j \in 1..Len(rules) :
                            /\ rules[i].next_rule # ""
                            /\ rules[j].rule_id = rules[i].next_rule
                            /\ rules[j].rule_id # rules[i].rule_id
                            /\ rules[j].rule_id \notin executed
                            /\ \A k \in 1..(j - 1) : rules[k].rule_id # rules[i].next_rule}
         IN execute_validation_rule(rules[i], groups[mo], parameter_info, sector)
            \o (IF chained = {} THEN <<>>
                ELSE execute_validation_rule(rules[CHOOSE j \in chained : TRUE], groups[mo],
                                             parameter_info, sector))
            \o AloneFrom(rules, i + 1,
                         executed \cup {rules[i].rule_id}
                             \cup {rules[j].rule_id : j \in chained},
                         mo, sector)

\* The error list check_parameter_validation returns for the MO and the
\* sector when it is the only call.
PassAlone(mo, sector) ==
    IF RulesOf(validation_rules, mo) = <<>> THEN <<>>
    ELSE IF mo \notin DOMAIN groups
    THEN <<ErrorRecord(sector, mo, "data_absent", "SYSTEM", None, None, None, <<>>, 0)>>
    ELSE AloneFrom(RulesOf(validation_rules, mo), 1, {}, mo, sector)

\* C23: no step of a pass changes the knowledge base (parameter definitions
\* and validation rules), and whenever a call of check_parameter_validation
\* has returned, interleaved in any way with a second call for another or
\* the same MO and sector, its error list is the one the call returns when
\* it runs alone.
C23_PassesIndependent ==
    [][/\ parameter_info' = parameter_info
       /\ validation_rules' = validation_rules
       /\ (pass_pc' = "done" => errors' = PassAlone(mo_name', sector_id'))]_vars

\* C23 witness: a call has returned errors while a second call, for another
\* sector, is suspended in the middle of its rules with errors of its own.
C23_Witness ==
    /\ pass_pc = "done"
    /\ errors # <<>>
    /\ executed_rules # {}
    /\ other_pass.pass_pc \in {"for", "chain"}
    /\ other_pass.executed_rules # {}
    /\ other_pass.errors # <<>>
    /\ other_pass.rule_index <= Len(other_pass.mo_rules)
    /\ other_pass.sector_id # sector_id

-----------------------------------------------------------------------------
(* Claims about the dispatch and the per-row results of check_single_param *)

\* C24: the matching method follows the declared type alone: the rows of a
\* parameter declared multiple are processed switch by switch
\* (_process_multi_value_param) whatever the number of expected switches,
\* those of a parameter declared single by string equality
\* (_process_single_value_param).
C24_MethodByDeclaredType ==
    (check_pc \in {"multi", "single"}) =>
        (check_pc = "multi" <=> param_info.parameter_type = "multiple")

-----------------------------------------------------------------------------
(* Claims about the order of a pass                                        *)

\* Position of a rule id in the rule sheet (load order).
LoadIndex(id) == CHOOSE i \in 1..Len(RuleIds) : RuleIds[i] = id

\* The rule of the MO with the id.
RuleOfId(id) == mo_rules[CHOOSE i \in 1..Len(mo_rules) : mo_rules[i].rule_id = id]

\* The k-th execution of the pass was made early, as the next_rule of the
\* rule executed just before it (which was not itself run as a next_rule).
RECURSIVE RanAsNext(_)
RanAsNext(k) ==
    /\ k > 1
    /\ ~RanAsNext(k - 1)
    /\ RuleOfId(execution_log[k - 1]).next_rule = execution_log[k]

\* C25: when the MO has a row-set, a finished pass has executed every rule
\* of the MO exactly once, and the executions that were not made early as
\* some rule's next_rule come in ascending execution_order, ties in load
\* order.
C25_EveryRuleOnceInOrder ==
    (pass_pc = "done" /\ mo_rules # <<>> /\ mo_name \in DOMAIN groups) =>
        /\ \A i \in 1..Len(mo_rules) :
              Cardinality({k \in 1..Len(execution_log) :
                              execution_log[k] = mo_rules[i].rule_id}) = 1
        /\ \A p, q \in 1..Len(execution_log) :
              (p < q /\ ~RanAsNext(p) /\ ~RanAsNext(q)) =>
                  \/ RuleOfId(execution_log[p]).execution_order
                         < RuleOfId(execution_log[q]).execution_order
                  \/ /\ RuleOfId(execution_log[p]).execution_order
                            = RuleOfId(execution_log[q]).execution_order
                     /\ LoadIndex(execution_log[p]) < LoadIndex(execution_log[q])

\* C25 witness: a finished pass over three or more rules whose load order is
\* not their execution order, with one rule run early as a next_rule and two
\* rules of equal execution_order run by the loop.
C25_Witness ==
    /\ pass_pc = "done"
    /\ mo_name \in DOMAIN groups
    /\ Len(mo_rules) >= 3
    /\ \E i, j \in 1..Len(mo_rules) :
          i < j /\ LoadIndex(mo_rules[i].rule_id) > LoadIndex(mo_rules[j].rule_id)
    /\ \E k \in 1..Len(execution_log) : RanAsNext(k)
    /\ \E p, q \in 1..Len(execution_log) :
          /\ p < q /\ ~RanAsNext(p) /\ ~RanAsNext(q)
          /\ RuleOfId(execution_log[p]).execution_order
                = RuleOfId(execution_log[q]).execution_order

\* C26: a pass of check_parameter_validation terminates whatever the
\* next_rule references are (cycles, self-references, unknown ids, ids of
\* other MOs), after at most one execution per rule of the MO.
\* As an invariant: a call that has not returned has a next statement that
\* completes, and the execution log never exceeds the rules of the MO.
C26_PassTerminates ==
    /\ pass_pc = "done" \/ PassEnabled
    /\ pass_pc # "call" => Len(execution_log) <= Len(mo_rules)

-----------------------------------------------------------------------------
(* Claims about rows outside the filter or the conditions                  *)

\* C27: a row that does not satisfy the parameter's conditions is treated as
\* valid whatever its value: check_single_param leaves its flag valid and
\* gives it no error entry and no command.
C27_UnconditionedRowValid ==
    CheckDone =>
        \A i \in 1..Len(tmp) :
            ~ConditionsHold(param_info.conditions, tmp[i]) => SingleSilent(i)

\* C27 witness: under a condition, two rows hold the same value of the
\* parameter; the one that meets the condition is flagged, the one that
\* does not is not.
C27_Witness ==
    /\ CheckDone
    /\ \E i, j \in 1..Len(tmp) :
          /\ tmp[i][param_info.parameter_name] = tmp[j][param_info.parameter_name]
          /\ ~ConditionsHold(param_info.conditions, tmp[i])
          /\ valid_mask[i]
          /\ ConditionsHold(param_info.conditions, tmp[j])
          /\ ~valid_mask[j]

\* The row satisfies the filter of the rule: the filter is empty, or all
\* atoms of one of its parenthesized groups hold on the row.
SatisfiesFilter(rule, row) ==
    \/ rule.filter_condition = <<>>
    \/ \E g \in 1..Len(Split(rule.filter_condition, OR)) :
          LET group == Split(rule.filter_condition, OR)[g]
          IN GroupTrue(SubSeq(group, 2, Len(group) - 1), row)

\* The same for the filter of a rule (execute_validation_rule): in a
\* finished pass no record of a rule is about a row that does not satisfy
\* the rule's filter.
FilteredOutRowUnreported ==
    (pass_pc = "done" /\ mo_name \in DOMAIN groups) =>
        \A r \in 1..Len(mo_rules) : \A k \in 1..Len(groups[mo_name]) :
            ~SatisfiesFilter(mo_rules[r], groups[mo_name][k])
                => RecordsOf(mo_rules[r], k) = {}

\* C28: after check_single_param has processed a row set, every row has
\* exactly one validity flag, one error-detail entry and one command entry,
\* and the three agree: the flag is valid exactly when the error detail is
\* empty and exactly when the command is the empty string.
C28_FlagDetailCommandAgree ==
    CheckDone =>
        /\ Len(valid_mask) = Len(tmp)
        /\ Len(error_details) = Len(tmp)
        /\ Len(mod_commands) = Len(tmp)
        /\ \A i \in 1..Len(tmp) :
              /\ valid_mask[i] <=> error_details[i] = <<>>
              /\ valid_mask[i] <=> mod_commands[i] = <<>>

\* C28 witness: a finished check of two rows, one flagged with its detail
\* and command, one valid with neither.
C28_Witness ==
    /\ CheckDone
    /\ \E i, j \in 1..Len(tmp) :
          /\ ~valid_mask[i] /\ error_details[i] # <<>> /\ mod_commands[i] # <<>>
          /\ SingleSilent(j)

-----------------------------------------------------------------------------
(* Claims about atoms that cannot be compared                              *)

\* The value of the expression when the atom without operator counts as
\* false and the rest is evaluated: "foo or G" is G, "foo and G" is false.
MalformedAsFalse(c, rest) == c = OR /\ rest

\* C29: an atom that contains none of the operators =, !=, >=, <=, >, <
\* evaluates to false and does not stop the evaluation of the rest of the
\* expression: next to a group G, on either side, bare or in parentheses of
\* its own, "foo or G" has the value of G and "foo and G" is false; the same
\* inside a group next to an atom.
C29_MalformedAtomIsFalse ==
    \A c \in Connectives, o \in AtomOperands :
        LET rest == AtomTrue(o[1], current_params)
        IN (IsStr /\ pc = "done" /\ AtomDefined(o[1], current_params)) =>
              /\ \A f \in MalformedOperands :
                    ((condition \in {f \o <<c>> \o Paren(o), Paren(o) \o <<c>> \o f})
                        => (result <=> MalformedAsFalse(c, rest)))
              /\ ((condition = Paren(<<AtomFoo, c>> \o o))
                    => (result <=> MalformedAsFalse(c, rest)))

\* C29 for the atom in parentheses of its own or inside a group, as in the
\* examples "(foo) or (a=1)" and "(foo) and (a=1)".
MalformedGroupIsFalse ==
    \A c \in Connectives, o \in AtomOperands :
        LET rest == AtomTrue(o[1], current_params)
            f == Paren(<<AtomFoo>>)
        IN (IsStr /\ pc = "done" /\ AtomDefined(o[1], current_params)) =>
              ((condition \in {f \o <<c>> \o Paren(o), Paren(o) \o <<c>> \o f,
                               Paren(<<AtomFoo, c>> \o o)})
                  => (result <=> MalformedAsFalse(c, rest)))

OrderingOperators == {<<">">>, <<"<">>, <<">", "=">>, <<"<", "=">>}

\* The atom applies an ordering operator to one numeric and one non-numeric
\* operand: its comparison raises TypeError.
MixedOrdering(t, row) ==
    LET k == FirstOperator(t)
    IN /\ k # 0
       /\ operators[k] \in OrderingOperators
       /\ LET at == Find(operators[k], t)
              cur == try_numeric(Strip(RowGet(row, Strip(SubSeq(t, 1, at - 1)))))
              exp == try_numeric(Strip(SubSeq(t, at + Len(operators[k]), Len(t))))
          IN cur.isnum # exp.isnum

\* C30: no exception escapes evaluate_complex_condition: when the comparison
\* of an atom raises (an ordering operator applied to one numeric and one
\* non-numeric operand), the whole expression evaluates to false, also when
\* another 'or' branch of the expression is true on the row. Checked for an
\* atom alone in a group, for two such groups joined by 'and' / 'or', and
\* for the first atom of a group of two.
C30_RaisingAtomMakesFalse ==
    (IsStr /\ pc = "done") =>
        /\ result \in BOOLEAN
        /\ \A t \in AllAtoms :
              (condition = Paren(<<t>>) /\ MixedOrdering(t, current_params)) => ~result
        /\ \A x, y \in CAtoms, c \in Connectives :
              ((MixedOrdering(x, current_params) \/ MixedOrdering(y, current_params))
                  /\ condition = Paren(<<x>>) \o <<c>> \o Paren(<<y>>)) => ~result
        /\ \A x, y \in CAtoms, c \in Connectives :
              (MixedOrdering(x, current_params) /\ condition = Paren(<<x, c, y>>)) => ~result

\* C30 witness: "(b=10) or (a>=10)" has returned false on a row where b=10
\* holds and the comparison of a with 10 raises.
C30_Witness ==
    /\ IsStr /\ pc = "done"
    /\ condition = Paren(<<AtomB_eq>>) \o <<OR>> \o Paren(<<AtomA_ge>>)
    /\ AtomTrue(AtomB_eq, current_params)
    /\ MixedOrdering(AtomA_ge, current_params)
    /\ ~result

====
